---- MODULE Spec2Model ----
(***************************************************************************)
(* Physics and collision core of the multiplayer voxel server.             *)
(*                                                                         *)
(* Modelled sources:                                                       *)
(*   src/game/VoxelWorld.js          VoxelWorld (grid, height map)         *)
(*   src/unnamed/part_000            Player, VoxelServer                   *)
(*   src/server.js (from line 1226)  MovingVoxel, trajectory variant, the  *)
(*                                   one whose 'kill_projectile' result    *)
(*                                   VoxelServer.updateMovingVoxels reads  *)
(*   src/unnamed/part_003            constants                             *)
(*                                                                         *)
(* Numbers.  JavaScript doubles are modelled in fixed point:               *)
(*   lengths     in 1/SCALE of a cell (SCALE = 20: the coarsest grid on    *)
(*               which VOXEL_SIZE 0.45 and the settle threshold 0.05 are   *)
(*               whole numbers),                                           *)
(*   velocities  in 1/SCALE cell per second,                               *)
(*   times       in 1/TPS second (TPS = 100000, i.e. 10 microseconds),     *)
(*   parameters  t in [0,1] of a segment in 1/TSCALE.                      *)
(* Every product is rounded to the nearest unit (RDiv).                    *)
(*                                                                         *)
(* The world is scaled down: WORLD_SIZE, the player's half extents, the    *)
(* spawn height and the terrain thickness are model bounds standing for    *)
(* 128, 8, 16, 50 and 16.                                                  *)
(***************************************************************************)
EXTENDS Integers, Sequences, FiniteSets, TLC

VARIABLES
    world,               \* VoxelWorld.world: the set of solid cells <<x,y,z>>
    heights,             \* VoxelWorld.heights: [<<x,z>> -> count]
    terrainNeedsRebuild, \* VoxelWorld.terrainNeedsRebuild
    players,             \* VoxelServer.players: playerId -> Player
    clients,             \* VoxelServer.clients: socket -> playerId
    movingVoxels,        \* VoxelServer.movingVoxels: sequence of MovingVoxel
    nextPlayerId,        \* VoxelServer.nextPlayerId
    nextVoxelId,         \* identity of the next MovingVoxel object created
    budget,              \* how many ticks, shots, inputs, ... have been used
    log,                 \* what the last step did (observation only)
    removedCells         \* ids of the body cells ever taken off a player

vars == <<world, heights, terrainNeedsRebuild, players, clients, movingVoxels,
          nextPlayerId, nextVoxelId, budget, log, removedCells>>

-----------------------------------------------------------------------------
(* Units                                                                   *)

SCALE == 4 * 5
TPS == 100 * 1000
TSCALE == 10 * 100
HALF == SCALE \div 2

(* Bounds of the model.                                                    *)
WORLD_SIZE == 4
PLAYER_HALF_WIDTH == 1
PLAYER_HALF_HEIGHT == 1
SPAWN_HEIGHT == 3
TERRAIN_HEIGHT == 1
MaxTicks == 10
MaxShots == 1
MaxInputs == 1
MaxSockets == 2
MaxDislodged == 1
MaxGridOps == 2
MaxLongTicks == 1
MaxEventTick == 0
MaxImpactDebris == 2

(* Program constants (src/unnamed/part_003), lengths and speeds in cells.  *)
MOVE_SPEED == 15
JUMP_SPEED == 18
GRAVITY == 40
STEP_HEIGHT == 6
SETTLE_SPEED_THRESHOLD == 3
VOXEL_SIZE == 9               \* 0.45 cell = 9/20
SERVER_TICK_RATE == 50

-----------------------------------------------------------------------------
(* Arithmetic helpers                                                      *)

Abs(a) == IF a < 0 THEN -a ELSE a
Min(a, b) == IF a < b THEN a ELSE b
Max(a, b) == IF a > b THEN a ELSE b

\* a / d rounded to the nearest integer (d > 0), halves rounded up
RDiv(a, d) == (2 * a + d) \div (2 * d)

\* Math.floor of a length, in cells
Floor(p) == p \div SCALE

\* Math.round of a length, in cells: JavaScript rounds halves up
JSRound(p) == (p + HALF) \div SCALE

RECURSIVE SqrtIter(_, _, _)
SqrtIter(n, lo, hi) ==
    IF hi - lo <= 1 THEN lo
    ELSE LET mid == (lo + hi) \div 2
         IN  IF mid * mid <= n THEN SqrtIter(n, mid, hi) ELSE SqrtIter(n, lo, mid)

\* floor of Math.sqrt(n)
ISqrt(n) == IF n <= 0 THEN 0 ELSE SqrtIter(n, 0, 46341)

Range(seq) == {seq[k] : k \in 1 .. Len(seq)}

VAdd(a, b) == <<a[1] + b[1], a[2] + b[2], a[3] + b[3]>>
VSub(a, b) == <<a[1] - b[1], a[2] - b[2], a[3] - b[3]>>
Dot(a, b) == a[1] * b[1] + a[2] * b[2] + a[3] * b[3]
NormSq(a) == Dot(a, a)
Norm(a) == ISqrt(NormSq(a))
\* v * num / den, component-wise
VScale(v, num, den) == <<RDiv(v[1] * num, den), RDiv(v[2] * num, den), RDiv(v[3] * num, den)>>
\* the displacement of velocity v over time t
Travel(v, t) == VScale(v, t, TPS)

-----------------------------------------------------------------------------
(* VoxelWorld                                                              *)

Coords == 0 .. (WORLD_SIZE - 1)
Cells == Coords \X Coords \X Coords
Columns == Coords \X Coords

InBounds(x, y, z) ==
    ~(x < 0 \/ x >= WORLD_SIZE \/ y < 0 \/ y >= WORLD_SIZE \/ z < 0 \/ z >= WORLD_SIZE)

\* VoxelWorld.getWorld on a grid w
GetWorld(w, x, y, z) ==
    IF x < 0 \/ x >= WORLD_SIZE \/ y < 0 \/ y >= WORLD_SIZE \/ z < 0 \/ z >= WORLD_SIZE
    THEN 0
    ELSE IF <<x, y, z>> \in w THEN 1 ELSE 0

\* a faulty setWorld that forgets the upper end of the range
SetWorldNoUpperCheck(w, d, x, y, z, value) ==
    IF x < 0 \/ y < 0 \/ z < 0
    THEN [world |-> w, dirty |-> d, ret |-> FALSE]
    ELSE LET oldValue == IF <<x, y, z>> \in w THEN 1 ELSE 0
             w2 == IF value = 1 THEN w \cup {<<x, y, z>>} ELSE w \ {<<x, y, z>>}
         IN  IF oldValue # value
             THEN [world |-> w2, dirty |-> TRUE, ret |-> TRUE]
             ELSE [world |-> w2, dirty |-> d, ret |-> FALSE]

\* a faulty setWorld that does not mark the terrain for rebuilding
SetWorldNoFlag(w, d, x, y, z, value) ==
    IF x < 0 \/ x >= WORLD_SIZE \/ y < 0 \/ y >= WORLD_SIZE \/ z < 0 \/ z >= WORLD_SIZE
    THEN [world |-> w, dirty |-> d, ret |-> FALSE]
    ELSE LET oldValue == IF <<x, y, z>> \in w THEN 1 ELSE 0
             w2 == IF value = 1 THEN w \cup {<<x, y, z>>} ELSE w \ {<<x, y, z>>}
         IN  [world |-> w2, dirty |-> d, ret |-> oldValue # value]

\* VoxelWorld.setWorld on a grid w with dirty flag d: the new grid, the new
\* flag and the value returned
SetWorld(w, d, x, y, z, value) ==
    IF x < 0 \/ x >= WORLD_SIZE \/ y < 0 \/ y >= WORLD_SIZE \/ z < 0 \/ z >= WORLD_SIZE
    THEN [world |-> w, dirty |-> d, ret |-> FALSE]
    ELSE LET oldValue == IF <<x, y, z>> \in w THEN 1 ELSE 0
             w2 == IF value = 1 THEN w \cup {<<x, y, z>>} ELSE w \ {<<x, y, z>>}
         IN  IF oldValue # value
             THEN [world |-> w2, dirty |-> TRUE, ret |-> TRUE]
             ELSE [world |-> w2, dirty |-> d, ret |-> FALSE]

\* the number of solid cells of column (x,z)
ColumnCount(w, x, z) == Cardinality({y \in Coords : <<x, y, z>> \in w})

\* the count of every column
CountColumns(w) == [c \in Columns |-> ColumnCount(w, c[1], c[2])]

\* a faulty rebuildHeightMap that leaves the flag set
RebuildHeightMapKeepFlag(w) == [heights |-> CountColumns(w), terrainNeedsRebuild |-> TRUE]

\* VoxelWorld.rebuildHeightMap: the recount of every column, the flag cleared
RebuildHeightMap(w) == [heights |-> CountColumns(w), terrainNeedsRebuild |-> FALSE]

\* VoxelWorld.getHeight
GetHeight(h, x, z) ==
    IF x < 0 \/ x >= WORLD_SIZE \/ z < 0 \/ z >= WORLD_SIZE THEN 0 ELSE h[<<x, z>>]

WORLD_BASE_HEIGHT == WORLD_SIZE \div 4

\* Math.floor((Math.random() - 0.5) * 4) ranges over -2 .. 1
TerrainVariation == {-2, -1, 0, 1}

\* VoxelWorld.generateWorld for a choice var[x,z] of the random variation:
\* each column is filled from base up to base + max(1, terrainHeight)
GenerateWorld(var) ==
    {c \in Cells :
        /\ c[2] >= WORLD_BASE_HEIGHT
        /\ c[2] < WORLD_BASE_HEIGHT + Max(1, TERRAIN_HEIGHT + var[<<c[1], c[3]>>])}

\* The terrains the model starts from: flat, and one with a step half way
\* along X (two of the outcomes of the random generation).
TerrainChoices ==
    { [c \in Columns |-> 0],
      [c \in Columns |-> IF c[1] >= WORLD_SIZE \div 2 THEN 1 ELSE 0] }

-----------------------------------------------------------------------------
(* MovingVoxel: terrain collision                                          *)

\* new MovingVoxel(pos, dir, isProjectile, throwerId): throwerId 0 is null
NewMovingVoxel(id, pos, dir, isProjectile, throwerId) ==
    [id |-> id,
     pos |-> pos,
     vel |-> <<dir[1] * 80, dir[2] * 80, dir[3] * 80>>,
     lastPos |-> pos,
     isProjectile |-> isProjectile,
     hasCollided |-> FALSE,
     throwerId |-> throwerId,
     hasLeftThrowerHitbox |-> FALSE,
     framesSinceLaunch |-> 0,
     isPlayerVoxel |-> FALSE]

\* the 15 points isPositionValid samples, as multiples of the size: the 8
\* corners, the 6 face centres and the centre
SampleOffsets ==
    {<<a, b, c>> : a \in {-1, 1}, b \in {-1, 1}, c \in {-1, 1}}
    \cup {<<0, 0, -1>>, <<0, 0, 1>>, <<0, -1, 0>>, <<0, 1, 0>>, <<-1, 0, 0>>, <<1, 0, 0>>}
    \cup {<<0, 0, 0>>}

\* MovingVoxel.isPositionValid
IsPositionValid(w, p) ==
    \A o \in SampleOffsets :
        GetWorld(w, Floor(p[1] + o[1] * VOXEL_SIZE),
                    Floor(p[2] + o[2] * VOXEL_SIZE),
                    Floor(p[3] + o[3] * VOXEL_SIZE)) = 0

\* the 20 halving steps of findCollisionTime
RECURSIVE BinarySearch(_, _, _, _, _, _, _)
BinarySearch(w, startPos, vel, minTime, maxTime, collisionTime, i) ==
    IF i = 20 THEN collisionTime
    ELSE LET testTime == (minTime + maxTime) \div 2
             testPos == VAdd(startPos, Travel(vel, testTime))
         IN  IF IsPositionValid(w, testPos)
             THEN BinarySearch(w, startPos, vel, testTime, maxTime, collisionTime, i + 1)
             ELSE BinarySearch(w, startPos, vel, minTime, testTime, testTime, i + 1)

NoCollision == -1

\* MovingVoxel.findCollisionTime: NoCollision (null) when endPos is valid
FindCollisionTime(w, startPos, endPos, vel, dt) ==
    IF IsPositionValid(w, endPos) THEN NoCollision
    ELSE BinarySearch(w, startPos, vel, 0, dt, dt, 0)

\* the six neighbours getCollisionInfo looks at when the centre is free
NeighbourChecks(p) ==
    << <<Floor(p[1] - VOXEL_SIZE), Floor(p[2]), Floor(p[3])>>,
       <<Floor(p[1] + VOXEL_SIZE), Floor(p[2]), Floor(p[3])>>,
       <<Floor(p[1]), Floor(p[2] - VOXEL_SIZE), Floor(p[3])>>,
       <<Floor(p[1]), Floor(p[2] + VOXEL_SIZE), Floor(p[3])>>,
       <<Floor(p[1]), Floor(p[2]), Floor(p[3] - VOXEL_SIZE)>>,
       <<Floor(p[1]), Floor(p[2]), Floor(p[3] + VOXEL_SIZE)>> >>

BlockCenter(b) == <<b[1] * SCALE + HALF, b[2] * SCALE + HALF, b[3] * SCALE + HALF>>

NoBlock == <<-1, -1, -1>>

\* the loop of getCollisionInfo over the neighbours: the first of the
\* nearest solid ones (dist < minDistance is strict)
RECURSIVE NearestSolid(_, _, _, _, _, _)
NearestSolid(w, p, checks, k, best, bestDistSq) ==
    IF k > Len(checks) THEN best
    ELSE LET c == checks[k]
             dSq == NormSq(VSub(p, BlockCenter(c)))
         IN  IF GetWorld(w, c[1], c[2], c[3]) = 1 /\ (best = NoBlock \/ dSq < bestDistSq)
             THEN NearestSolid(w, p, checks, k + 1, c, dSq)
             ELSE NearestSolid(w, p, checks, k + 1, best, bestDistSq)

CollisionBlock(w, p) ==
    IF GetWorld(w, Floor(p[1]), Floor(p[2]), Floor(p[3])) = 1
    THEN <<Floor(p[1]), Floor(p[2]), Floor(p[3])>>
    ELSE NearestSolid(w, p, NeighbourChecks(p), 1, NoBlock, 0)

\* a face choice that prefers X, then Y, then Z among the largest overlaps
CollisionAxisXFirst(p, b) ==
    LET c == BlockCenter(b)
        ox == Abs(p[1] - c[1])
        oy == Abs(p[2] - c[2])
        oz == Abs(p[3] - c[3])
    IN  IF ox >= oy /\ ox >= oz THEN 1 ELSE IF oy >= oz THEN 2 ELSE 3

\* the face choice of getCollisionInfo for block b
CollisionAxis(p, b) ==
    LET c == BlockCenter(b)
        leftOverlap == Max(0, c[1] - (p[1] - VOXEL_SIZE))
        rightOverlap == Max(0, (p[1] + VOXEL_SIZE) - c[1])
        bottomOverlap == Max(0, c[2] - (p[2] - VOXEL_SIZE))
        topOverlap == Max(0, (p[2] + VOXEL_SIZE) - c[2])
        backOverlap == Max(0, c[3] - (p[3] - VOXEL_SIZE))
        frontOverlap == Max(0, (p[3] + VOXEL_SIZE) - c[3])
        maxOverlap == Max(Max(Max(leftOverlap, rightOverlap), Max(bottomOverlap, topOverlap)),
                          Max(backOverlap, frontOverlap))
    IN  IF maxOverlap = topOverlap \/ maxOverlap = bottomOverlap THEN 2
        ELSE IF maxOverlap = frontOverlap \/ maxOverlap = backOverlap THEN 3
        ELSE 1

\* MovingVoxel.getCollisionInfo: block = NoBlock stands for null; the axis is
\* the index 1..3 of the component (0..2 in the source)
GetCollisionInfo(w, p) ==
    LET b == CollisionBlock(w, p)
    IN  IF b = NoBlock THEN [block |-> NoBlock, axis |-> 0]
        ELSE [block |-> b, axis |-> CollisionAxis(p, b)]

\* a bounce whose friction acts on both other components, Y included
BounceVelocityFrictionAll(vel, axis, isProjectile) ==
    LET restitution == IF isProjectile THEN 4 ELSE 2
        friction == IF isProjectile THEN 8 ELSE 9
    IN  IF Abs(vel[axis]) > 2 * SCALE
        THEN [i \in 1..3 |->
                IF i = axis THEN RDiv(-(vel[i] * restitution), 10)
                ELSE RDiv(vel[i] * friction, 10)]
        ELSE [i \in 1..3 |-> IF i = axis THEN 0 ELSE vel[i]]

\* the bounce or stop of handleCollision on the velocity
BounceVelocity(vel, axis, isProjectile) ==
    LET restitution == IF isProjectile THEN 4 ELSE 2       \* tenths
        friction == IF isProjectile THEN 8 ELSE 9          \* tenths
    IN  IF Abs(vel[axis]) > 2 * SCALE
        THEN [i \in 1..3 |->
                IF i = axis THEN RDiv(-(vel[i] * restitution), 10)
                ELSE IF i # 2 THEN RDiv(vel[i] * friction, 10)
                ELSE vel[i]]
        ELSE [i \in 1..3 |-> IF i = axis THEN 0 ELSE vel[i]]

\* a threshold of 10 instead of 15
FastEnoughAbove10(vel) == NormSq(vel) > (10 * SCALE) * (10 * SCALE)

\* "speed > 15" of handleCollision
FastEnough(vel) == NormSq(vel) > (15 * SCALE) * (15 * SCALE)

-----------------------------------------------------------------------------
(* MovingVoxel: destruction, settling, boundaries, voxel against voxel     *)

\* the offsets createDestruction visits, in the order of its three loops
SphereOffsets == {<<dx, dy, dz>> \in (-3..3) \X (-3..3) \X (-3..3) : dx*dx + dy*dy + dz*dz <= 9}

\* the position of an offset in the order of three nested ascending loops
LoopOrder(o) == (o[1] + 4) * 81 + (o[2] + 4) * 9 + (o[3] + 4)

\* the blocks createDestruction dislodges around impact block b when lucky is
\* the set of cells whose Math.random() draw falls below forceRatio * 0.7:
\* solid, dist <= 3, dist > 0.5, forceRatio > 0 and dirLength > 0
DislodgedOffsets(w, b, lucky) ==
    {o \in SphereOffsets :
        /\ GetWorld(w, b[1] + o[1], b[2] + o[2], b[3] + o[3]) = 1
        /\ NormSq(o) > 0
        /\ NormSq(o) < 9
        /\ <<b[1] + o[1], b[2] + o[2], b[3] + o[3]>> \in lucky}

\* the velocity createDestruction gives the debris of offset o
DebrisVelocity(o, speed, vel) ==
    LET dist == ISqrt(NormSq(o) * SCALE * SCALE)                  \* in 1/SCALE cell
        forceRatio == Max(0, 1000 - RDiv(dist * 1000, 3 * SCALE)) \* in 1/1000
        velocityTransfer == RDiv(speed * forceRatio * 8, 10000)
    IN  <<RDiv(o[1] * SCALE * velocityTransfer, dist) + RDiv(vel[1] * 3, 10),
          RDiv(o[2] * SCALE * velocityTransfer, dist) + RDiv(vel[2] * 3, 10) + 8 * SCALE,
          RDiv(o[3] * SCALE * velocityTransfer, dist) + RDiv(vel[3] * 3, 10)>>

\* the offsets of a set in loop order
RECURSIVE InLoopOrder(_)
InLoopOrder(S) ==
    IF S = {} THEN <<>>
    ELSE LET first == CHOOSE o \in S : \A o2 \in S : LoopOrder(o) <= LoopOrder(o2)
         IN  <<first>> \o InLoopOrder(S \ {first})

\* a removal that leaves the grid as it is
ClearBlocksNothing(w, d, b, offs, k) == [world |-> w, dirty |-> d]

\* a sweep that empties the impact block as well
ClearBlocksAndImpact(w, d, b, offs, k) ==
    [world |-> (w \ {b}) \ {<<b[1] + o[1], b[2] + o[2], b[3] + o[3]>> : o \in Range(offs)},
     dirty |-> TRUE]

\* the removal of the cells of a sequence of offsets around b, one setWorld
\* after the other
RECURSIVE ClearBlocks(_, _, _, _, _)
ClearBlocks(w, d, b, offs, k) ==
    IF k > Len(offs) THEN [world |-> w, dirty |-> d]
    ELSE LET r == SetWorld(w, d, b[1] + offs[k][1], b[2] + offs[k][2], b[3] + offs[k][3], 0)
         IN  IF r.world = w THEN ClearBlocks(w, r.dirty, b, offs, k + 1)
             ELSE ClearBlocks(r.world, r.dirty, b, offs, k + 1)

\* MovingVoxel.createDestruction of the voxel at index i of st.mv
CreateDestruction(st, i, b, speed, lucky) ==
    LET v == st.mv[i]
        offs == InLoopOrder(DislodgedOffsets(st.world, b, lucky))
        debris == [k \in 1..Len(offs) |->
                     [NewMovingVoxel(st.nextVoxelId + k - 1,
                                     BlockCenter(<<b[1] + offs[k][1], b[2] + offs[k][2], b[3] + offs[k][3]>>),
                                     <<0, 0, 0>>, FALSE, 0)
                        EXCEPT !.vel = DebrisVelocity(offs[k], speed, v.vel)]]
        cleared == ClearBlocks(st.world, st.dirty, b, offs, 1)
    IN  [st EXCEPT !.mv = [@ EXCEPT ![i].hasCollided = TRUE] \o debris,
                   !.world = cleared.world,
                   !.dirty = cleared.dirty,
                   !.nextVoxelId = @ + Len(offs),
                   !.log.changes = @ + Len(offs),
                   !.log.triggered = @ \cup {v.id},
                   !.log.destroyed = @ \cup {[by |-> v.id, impact |-> b,
                                              cells |-> {<<b[1] + o[1], b[2] + o[2], b[3] + o[3]>> :
                                                           o \in DislodgedOffsets(st.world, b, lucky)},
                                              wasProjectile |-> v.isProjectile,
                                              debris |-> Range(debris),
                                              before |-> st.world,
                                              after |-> cleared.world]}]

\* a handleCollision that destroys terrain at every fast collision
HandleCollisionEveryTime(st, i, collision, lucky) ==
    IF FastEnough(BounceVelocity(st.mv[i].vel, collision.axis, st.mv[i].isProjectile))
           /\ st.mv[i].isProjectile
    THEN CreateDestruction(
             [st EXCEPT !.mv[i].vel = BounceVelocity(st.mv[i].vel, collision.axis, TRUE)],
             i, collision.block,
             Norm(BounceVelocity(st.mv[i].vel, collision.axis, TRUE)), lucky)
    ELSE [st EXCEPT !.mv[i].vel = BounceVelocity(@, collision.axis, st.mv[i].isProjectile)]

\* MovingVoxel.handleCollision of the voxel at index i of st.mv
HandleCollision(st, i, collision, lucky) ==
    LET v == st.mv[i]
        vel2 == BounceVelocity(v.vel, collision.axis, v.isProjectile)
        st2 == [st EXCEPT !.mv[i].vel = vel2,
                          !.log.collisions = @ \cup
                              {[id |-> v.id, isProjectile |-> v.isProjectile,
                                hadCollided |-> v.hasCollided,
                                velBefore |-> v.vel, velAfter |-> vel2,
                                block |-> collision.block, axis |-> collision.axis,
                                terrain |-> st.world]}]
    IN  IF FastEnough(vel2) /\ ~v.hasCollided /\ v.isProjectile
        THEN CreateDestruction(st2, i, collision.block, Norm(vel2), lucky)
        ELSE st2

\* the offsets of the shell of a radius in findClosestEmptyPosition
ShellOffsets(radius) ==
    {o \in (-radius..radius) \X (-radius..radius) \X (-radius..radius) :
        Abs(o[1]) = radius \/ Abs(o[2]) = radius \/ Abs(o[3]) = radius}

IsFreeCell(w, x, y, z) ==
    /\ x >= 0 /\ x < WORLD_SIZE /\ y >= 0 /\ y < WORLD_SIZE
    /\ z >= 0 /\ z < WORLD_SIZE /\ GetWorld(w, x, y, z) = 0

NoPosition == <<-1, -1, -1>>

\* the shells of findClosestEmptyPosition from radius on: the candidate of
\* the first non-empty shell that the stable sort by distance puts first
RECURSIVE SearchShells(_, _, _, _)
SearchShells(w, target, radius, maxRadius) ==
    IF radius > maxRadius THEN NoPosition
    ELSE LET candidates == {o \in ShellOffsets(radius) :
                               IsFreeCell(w, target[1] + o[1], target[2] + o[2], target[3] + o[3])}
         IN  IF candidates # {}
             THEN LET best == CHOOSE o \in candidates : \A o2 \in candidates :
                                  \/ NormSq(o) < NormSq(o2)
                                  \/ NormSq(o) = NormSq(o2) /\ LoopOrder(o) <= LoopOrder(o2)
                  IN  <<target[1] + best[1], target[2] + best[2], target[3] + best[3]>>
             ELSE SearchShells(w, target, radius + 1, maxRadius)

\* a faulty findClosestEmptyPosition that falls back on the target itself
FindClosestEmptyPositionForced(w, target) ==
    IF IsFreeCell(w, target[1], target[2], target[3]) THEN target
    ELSE IF SearchShells(w, target, 1, 4) # NoPosition THEN SearchShells(w, target, 1, 4)
    ELSE target

\* a search that takes the nearest free cell of the whole cube of radius 4,
\* whatever its shell
FindClosestEmptyPositionAnyShell(w, target) ==
    LET candidates == {o \in (-4..4) \X (-4..4) \X (-4..4) :
                          IsFreeCell(w, target[1] + o[1], target[2] + o[2], target[3] + o[3])}
        best == CHOOSE o \in candidates : \A o2 \in candidates :
                    \/ NormSq(o) < NormSq(o2)
                    \/ NormSq(o) = NormSq(o2) /\ LoopOrder(o) <= LoopOrder(o2)
    IN  IF candidates = {} THEN NoPosition
        ELSE <<target[1] + best[1], target[2] + best[2], target[3] + best[3]>>

\* MovingVoxel.findClosestEmptyPosition with maxRadius = 4
FindClosestEmptyPosition(w, target) ==
    IF IsFreeCell(w, target[1], target[2], target[3]) THEN target
    ELSE SearchShells(w, target, 1, 4)

\* the cell settleToGrid aims at
SettleTarget(pos) == <<JSRound(pos[1] - HALF), JSRound(pos[2] - HALF), JSRound(pos[3] - HALF)>>

\* a faulty settleToGrid that reports 'settled' without a write to the grid
SettleToGridNoWrite(st, i) ==
    LET v == st.mv[i]
        target == SettleTarget(v.pos)
        foundPos == FindClosestEmptyPosition(st.world, target)
        rec == [id |-> v.id, target |-> target, found |-> foundPos,
                wasSolid |-> foundPos \in st.world,
                noneFree |-> foundPos = NoPosition,
                written |-> {},
                erased |-> {}]
    IN  [st |-> [st EXCEPT !.log.settles = @ \cup {rec}],
         result |-> IF foundPos # NoPosition THEN "settled" ELSE "continue"]

\* MovingVoxel.settleToGrid of the voxel at index i: the new state and the
\* result, "settled" or "continue"
SettleToGrid(st, i) ==
    LET v == st.mv[i]
        target == SettleTarget(v.pos)
        foundPos == FindClosestEmptyPosition(st.world, target)
        r == IF foundPos # NoPosition
             THEN SetWorld(st.world, st.dirty, foundPos[1], foundPos[2], foundPos[3], 1)
             ELSE [world |-> st.world, dirty |-> st.dirty, ret |-> FALSE]
        rec == [id |-> v.id, target |-> target, found |-> foundPos,
                wasSolid |-> foundPos \in st.world,
                noneFree |-> \A o \in (-4..4) \X (-4..4) \X (-4..4) :
                                ~IsFreeCell(st.world, target[1] + o[1], target[2] + o[2], target[3] + o[3]),
                written |-> r.world \ st.world,
                erased |-> st.world \ r.world]
    IN  [st |-> [st EXCEPT !.world = r.world, !.dirty = r.dirty,
                           !.log.changes = IF r.ret THEN @ + 1 ELSE @,
                           !.log.settles = @ \cup {rec}],
         result |-> IF foundPos # NoPosition THEN "settled" ELSE "continue"]

\* MovingVoxel.checkSettling of the voxel at index i
CheckSettling(st, i) ==
    LET v == st.mv[i]
        slow == NormSq(v.vel) < (SETTLE_SPEED_THRESHOLD * SCALE) * (SETTLE_SPEED_THRESHOLD * SCALE)
        still == NormSq(VSub(v.pos, v.lastPos)) < 1       \* posChange < 0.05
        st2 == [st EXCEPT !.mv[i].lastPos = v.pos]
    IN  IF slow \/ still THEN SettleToGrid(st2, i)
        ELSE [st |-> st2, result |-> "continue"]

\* a floor that gives the whole vertical velocity back
HandleWorldBoundariesElastic(v) ==
    [v EXCEPT !.pos[2] = IF v.pos[2] < VOXEL_SIZE THEN VOXEL_SIZE ELSE @,
              !.vel[2] = IF v.pos[2] < VOXEL_SIZE /\ @ < 0 THEN -@ ELSE @]

\* MovingVoxel.handleWorldBoundaries on one voxel
HandleWorldBoundaries(v) ==
    LET onFloor == v.pos[2] < VOXEL_SIZE
        bounce == onFloor /\ v.vel[2] < 0
        vel2 == IF bounce
                THEN <<RDiv(v.vel[1] * 8, 10), RDiv(-(v.vel[2] * 3), 10), RDiv(v.vel[3] * 8, 10)>>
                ELSE v.vel
        margin == VOXEL_SIZE
        clamp(c) == Max(margin, Min(WORLD_SIZE * SCALE - margin, c))
    IN  [v EXCEPT !.pos = <<clamp(v.pos[1]), IF onFloor THEN VOXEL_SIZE ELSE v.pos[2], clamp(v.pos[3])>>,
                  !.vel = vel2]

-----------------------------------------------------------------------------
(* MovingVoxel: voxel against voxel, projectile against player             *)

\* MovingVoxel.checkVoxelToVoxelCollision: distance < size + size
CheckVoxelToVoxelCollision(a, b) ==
    NormSq(VSub(a.pos, b.pos)) < (2 * VOXEL_SIZE) * (2 * VOXEL_SIZE)

\* MovingVoxel.handleVoxelCollision: the two bodies afterwards
HandleVoxelCollision(a, b) ==
    LET d == VSub(a.pos, b.pos)
        distance == Norm(d)
        overlap == (VOXEL_SIZE + VOXEL_SIZE) * 2 - distance
        push == <<RDiv(d[1] * overlap * 51, distance * 100),
                  RDiv(d[2] * overlap * 51, distance * 100),
                  RDiv(d[3] * overlap * 51, distance * 100)>>
        relVel == VSub(a.vel, b.vel)
        velAlongNormal == RDiv(Dot(relVel, d), distance)
        impulseScalar == RDiv(-(16 * velAlongNormal), 20)
        impulse == <<RDiv(impulseScalar * d[1], distance),
                     RDiv(impulseScalar * d[2], distance),
                     RDiv(impulseScalar * d[3], distance)>>
        a2 == [a EXCEPT !.pos = VAdd(a.pos, push)]
        b2 == [b EXCEPT !.pos = VSub(b.pos, push)]
    IN  IF distance < 1 THEN <<a, b>>
        ELSE IF velAlongNormal > 0 THEN <<a2, b2>>
        ELSE <<[a2 EXCEPT !.vel = VAdd(a.vel, impulse)],
               [b2 EXCEPT !.vel = VSub(b.vel, impulse)]>>

\* MovingVoxel.handleVoxelCollisions of the voxel at index i against
\* allVoxels[k..]
RECURSIVE HandleVoxelCollisions(_, _, _)
HandleVoxelCollisions(mv, i, k) ==
    IF k > Len(mv) THEN mv
    ELSE IF k # i /\ CheckVoxelToVoxelCollision(mv[i], mv[k])
         THEN LET r == HandleVoxelCollision(mv[i], mv[k])
              IN  HandleVoxelCollisions([mv EXCEPT ![i] = r[1], ![k] = r[2]], i, k + 1)
         ELSE HandleVoxelCollisions(mv, i, k + 1)

\* the inner loop of handleDebrisPlayerCollisions: the cells of one body
\* from index k down
RECURSIVE DebrisAgainstBody(_, _, _)
DebrisAgainstBody(v, body, k) ==
    IF k < 1 THEN [v |-> v, body |-> body]
    ELSE IF CheckVoxelToVoxelCollision(v, body[k])
         THEN LET r == HandleVoxelCollision(v, body[k])
              IN  DebrisAgainstBody(r[1], [body EXCEPT ![k] = r[2]], k - 1)
         ELSE DebrisAgainstBody(v, body, k - 1)

-----------------------------------------------------------------------------
(* Player                                                                  *)

\* the patterns of createVoxelBody in the order of its loops
BodyPatterns ==
    [k \in 1 .. (2 * PLAYER_HALF_WIDTH) * (2 * PLAYER_HALF_HEIGHT) * (2 * PLAYER_HALF_WIDTH) |->
        LET n == k - 1
            perX == (2 * PLAYER_HALF_HEIGHT) * (2 * PLAYER_HALF_WIDTH)
        IN  <<(n \div perX) - PLAYER_HALF_WIDTH,
              ((n % perX) \div (2 * PLAYER_HALF_WIDTH)) - PLAYER_HALF_HEIGHT,
              (n % (2 * PLAYER_HALF_WIDTH)) - PLAYER_HALF_WIDTH>>]

\* Player.createVoxelBody: one cell per pattern, zero velocity
CreateVoxelBody(playerId, centerPos) ==
    [k \in 1 .. Len(BodyPatterns) |->
        [id |-> <<playerId, k>>,
         pos |-> <<centerPos[1] + BodyPatterns[k][1] * SCALE,
                   centerPos[2] + BodyPatterns[k][2] * SCALE,
                   centerPos[3] + BodyPatterns[k][3] * SCALE>>,
         vel |-> <<0, 0, 0>>]]

SpawnPosition ==
    <<(WORLD_SIZE * SCALE) \div 2, (WORLD_BASE_HEIGHT + SPAWN_HEIGHT) * SCALE, (WORLD_SIZE * SCALE) \div 2>>

\* cos(0.3) in thousandths, the pitch a player starts with
InitialPitchCos == 955

\* new Player(playerId): yaw is kept as a quarter turn 0..3, pitch by its
\* cosine in thousandths
NewPlayer(playerId) ==
    [id |-> playerId,
     centerPos |-> SpawnPosition,
     velY |-> 0,
     grounded |-> FALSE,
     yaw |-> 0,
     pitchCos |-> InitialPitchCos,
     keys |-> {},
     bodyVoxels |-> CreateVoxelBody(playerId, SpawnPosition)]

\* the sum of the positions of the cells lo .. hi of a body, added by halves
RECURSIVE SumPos(_, _, _)
SumPos(body, lo, hi) ==
    IF lo > hi THEN <<0, 0, 0>>
    ELSE IF lo = hi THEN body[lo].pos
    ELSE VAdd(SumPos(body, lo, (lo + hi) \div 2), SumPos(body, ((lo + hi) \div 2) + 1, hi))

\* Player.getCenterPosition
GetCenterPosition(p) ==
    IF Len(p.bodyVoxels) = 0 THEN p.centerPos
    ELSE VScale(SumPos(p.bodyVoxels, 1, Len(p.bodyVoxels)), 1, Len(p.bodyVoxels))

\* the body after every cell moved by d
MoveBody(body, d) == [k \in 1 .. Len(body) |-> [body[k] EXCEPT !.pos = VAdd(@, d)]]

\* a player whose body is built anew around the centre at every update
FollowCenterRegrow(p) == [p EXCEPT !.bodyVoxels = CreateVoxelBody(p.id, p.centerPos)]

\* a centre that jumps to the mean of the cells at once
FollowCenterAtOnce(p) == [p EXCEPT !.centerPos = GetCenterPosition(p)]

\* a centre that stays where it is while the mean of the cells is more than
\* maxCenterShift away
FollowCenterNearOnly(p) ==
    IF NormSq(VSub(GetCenterPosition(p), p.centerPos)) <= (2 * SCALE) * (2 * SCALE)
    THEN [p EXCEPT !.centerPos = GetCenterPosition(p)]
    ELSE p

\* the first part of Player.updatePhysics: the centre follows the mean of
\* the cells, by at most maxCenterShift = 2.0
FollowCenter(p) ==
    LET newCenter == GetCenterPosition(p)
        d == VSub(newCenter, p.centerPos)
        shiftMagnitude == Norm(d)
    IN  IF NormSq(d) <= (2 * SCALE) * (2 * SCALE)
        THEN [p EXCEPT !.centerPos = newCenter]
        ELSE [p EXCEPT !.centerPos = VAdd(@, VScale(d, 2 * SCALE, shiftMagnitude))]

\* heights[i] of the flat Int32Array: undefined (-1 here) outside 0 .. N*N-1
HeightAtIndex(h, i) ==
    IF i < 0 \/ i >= WORLD_SIZE * WORLD_SIZE THEN -1
    ELSE h[<<i % WORLD_SIZE, i \div WORLD_SIZE>>]

\* groundY of checkGroundCollision and stickToGround, in 1/SCALE cell
GroundY(p, h) ==
    LET cx_i == Floor(p.centerPos[1])
        cz_i == Floor(p.centerPos[3])
    IN  (WORLD_SIZE \div 4) * SCALE
        + (IF cx_i >= 0 /\ cx_i < WORLD_SIZE /\ cz_i >= 0 /\ cz_i < WORLD_SIZE
           THEN HeightAtIndex(h, cx_i + cz_i * WORLD_SIZE) ELSE 0) * SCALE

\* Player.checkGroundCollision
CheckGroundCollision(p, h) ==
    LET rest == GroundY(p, h) + PLAYER_HALF_HEIGHT * SCALE
        correction == rest - p.centerPos[2]
    IN  IF p.centerPos[2] <= rest
        THEN [p EXCEPT !.centerPos[2] = rest,
                       !.bodyVoxels = MoveBody(@, <<0, correction, 0>>),
                       !.grounded = TRUE,
                       !.velY = 0]
        ELSE p

\* a player that lets go of the ground as soon as it is above it
StickToGroundNoSlack(p, h) ==
    LET rest == GroundY(p, h) + PLAYER_HALF_HEIGHT * SCALE
    IN  IF p.centerPos[2] > rest THEN [p EXCEPT !.grounded = FALSE]
        ELSE [p EXCEPT !.centerPos[2] = rest,
                       !.bodyVoxels = MoveBody(@, <<0, rest - p.centerPos[2], 0>>)]

\* Player.stickToGround
StickToGround(p, h) ==
    LET rest == GroundY(p, h) + PLAYER_HALF_HEIGHT * SCALE
        correction == rest - p.centerPos[2]
    IN  IF p.centerPos[2] > rest + SCALE
        THEN [p EXCEPT !.grounded = FALSE]
        ELSE [p EXCEPT !.centerPos[2] = rest,
                       !.bodyVoxels = MoveBody(@, <<0, correction, 0>>)]

\* Player.updateVerticalPhysics
UpdateVerticalPhysics(p, dt, h) ==
    IF ~p.grounded
    THEN LET velY == p.velY - RDiv(GRAVITY * SCALE * dt, TPS)
             deltaY == RDiv(velY * dt, TPS)
         IN  CheckGroundCollision(
                 [p EXCEPT !.velY = velY,
                           !.bodyVoxels = MoveBody(@, <<0, deltaY, 0>>),
                           !.centerPos[2] = @ + deltaY], h)
    ELSE StickToGround(p, h)

\* the X and Z of getCameraDirection, in thousandths
CameraDirXZ(yaw, pitchCos) ==
    CASE yaw = 0 -> <<0, pitchCos>>
      [] yaw = 1 -> <<pitchCos, 0>>
      [] yaw = 2 -> <<0, -pitchCos>>
      [] OTHER   -> <<-pitchCos, 0>>

\* the X and Z of getCameraRight, in thousandths: the normalised cross
\* product of the camera direction and the world's up
CameraRightXZ(yaw) ==
    CASE yaw = 0 -> <<-1000, 0>>
      [] yaw = 1 -> <<0, 1000>>
      [] yaw = 2 -> <<1000, 0>>
      [] OTHER   -> <<0, -1000>>

\* the movement vector of updateHorizontalMovement before normalisation
MovementVector(p) ==
    LET camDir == CameraDirXZ(p.yaw, p.pitchCos)
        camRight == CameraRightXZ(p.yaw)
        w == IF "w" \in p.keys THEN 1 ELSE 0
        s == IF "s" \in p.keys THEN 1 ELSE 0
        a == IF "a" \in p.keys THEN 1 ELSE 0
        d == IF "d" \in p.keys THEN 1 ELSE 0
    IN  <<(w - s) * camDir[1] + (d - a) * camRight[1],
          (w - s) * camDir[2] + (d - a) * camRight[2]>>

\* a player no wall stops
CanMoveToAnywhere(p, deltaX, deltaZ, h) ==
    LET tx == Floor(p.centerPos[1] + deltaX)
        tz == Floor(p.centerPos[3] + deltaZ)
    IN  ~(tx < 0 \/ tx >= WORLD_SIZE \/ tz < 0 \/ tz >= WORLD_SIZE)

\* Player.canMoveTo
CanMoveTo(p, deltaX, deltaZ, h) ==
    LET tx == Floor(p.centerPos[1] + deltaX)
        tz == Floor(p.centerPos[3] + deltaZ)
        cxi == Floor(p.centerPos[1])
        czi == Floor(p.centerPos[3])
        currentHeight == HeightAtIndex(h, cxi + czi * WORLD_SIZE)
        targetHeight == HeightAtIndex(h, tx + tz * WORLD_SIZE)
    IN  IF tx < 0 \/ tx >= WORLD_SIZE \/ tz < 0 \/ tz >= WORLD_SIZE THEN FALSE
        ELSE IF currentHeight = -1 THEN FALSE        \* NaN <= STEP_HEIGHT
        ELSE targetHeight - currentHeight <= STEP_HEIGHT

\* Player.updateHorizontalMovement
UpdateHorizontalMovement(p, dt, h) ==
    LET m == MovementVector(p)
        len == ISqrt(m[1] * m[1] + m[2] * m[2])
        step == RDiv(MOVE_SPEED * SCALE * dt, TPS)
        deltaX == RDiv(m[1] * step, len)
        deltaZ == RDiv(m[2] * step, len)
    IN  IF len > 0 /\ CanMoveTo(p, deltaX, deltaZ, h)
        THEN [p EXCEPT !.centerPos = <<@[1] + deltaX, @[2], @[3] + deltaZ>>,
                       !.bodyVoxels = MoveBody(@, <<deltaX, 0, deltaZ>>)]
        ELSE p

\* Player.enforceBoundaries
EnforceBoundaries(p) ==
    LET margin == RDiv(PLAYER_HALF_WIDTH * SCALE, 16)
        clamp(c) == Max(margin, Min(WORLD_SIZE * SCALE - margin, c))
        boundaryDeltaX == clamp(p.centerPos[1]) - p.centerPos[1]
        boundaryDeltaZ == clamp(p.centerPos[3]) - p.centerPos[3]
    IN  [p EXCEPT !.centerPos = <<clamp(@[1]), @[2], clamp(@[3])>>,
                  !.bodyVoxels = IF boundaryDeltaX # 0 \/ boundaryDeltaZ # 0
                                 THEN MoveBody(@, <<boundaryDeltaX, 0, boundaryDeltaZ>>)
                                 ELSE @]

\* Player.updatePhysics: the player afterwards
PlayerUpdatePhysics(p, dt, h) ==
    IF Len(p.bodyVoxels) = 0 THEN p
    ELSE EnforceBoundaries(
             UpdateHorizontalMovement(
                 UpdateVerticalPhysics(FollowCenter(p), dt, h), dt, h))

\* a jump from the air as well
JumpAnytime(p) == [p EXCEPT !.velY = JUMP_SPEED * SCALE, !.grounded = FALSE]

\* Player.jump
Jump(p) ==
    IF p.grounded THEN [p EXCEPT !.velY = JUMP_SPEED * SCALE, !.grounded = FALSE] ELSE p

\* Player.updateCamera
UpdateCamera(p, yaw, pitchCos) == [p EXCEPT !.yaw = yaw, !.pitchCos = pitchCos]

\* Player.updateKeys
UpdateKeys(p, keys) == [p EXCEPT !.keys = keys]

-----------------------------------------------------------------------------
(* MovingVoxel: the projectile's travel segment against the players        *)

NoHit == -1

\* MovingVoxel.findTrajectoryVoxelIntersection: t in 1/TSCALE, NoHit for null
FindTrajectoryVoxelIntersection(startPos, trajectory, cellPos) ==
    LET combinedRadius == VOXEL_SIZE + VOXEL_SIZE
        toVoxel == VSub(cellPos, startPos)
        trajectoryDot == NormSq(trajectory)
        projectionLength == RDiv(Dot(toVoxel, trajectory) * TSCALE, trajectoryDot)
        clampedT == Max(0, Min(TSCALE, projectionLength))
        closestPoint == VAdd(startPos, VScale(trajectory, clampedT, TSCALE))
        \* a, b/2 and c of the quadratic; the roots (-b -+ sqrt(b*b - 4ac)) / 2a
        \* are computed as (-b/2 -+ sqrt((b/2)^2 - ac)) / a
        a == trajectoryDot
        halfB == Dot(trajectory, VSub(startPos, cellPos))
        c == NormSq(VSub(startPos, cellPos)) - combinedRadius * combinedRadius
        discriminant == halfB * halfB - a * c
        sqrtDiscriminant == ISqrt(discriminant)
        n1 == -halfB - sqrtDiscriminant
        n2 == -halfB + sqrtDiscriminant
    IN  IF trajectoryDot < 1 THEN NoHit
        ELSE IF NormSq(VSub(closestPoint, cellPos)) <= combinedRadius * combinedRadius
        THEN IF discriminant >= 0 /\ n1 >= 0 /\ n1 <= a THEN RDiv(n1 * TSCALE, a)
             ELSE IF discriminant >= 0 /\ n2 >= 0 /\ n2 <= a THEN RDiv(n2 * TSCALE, a)
             ELSE clampedT
        ELSE NoHit

\* the thrower test of handlePlayerCollisionsTrajectory: TRUE when the
\* thrower is skipped in this tick
SkipThrower(v, startPos, throwerCenter) ==
    /\ NormSq(VSub(startPos, throwerCenter)) < (20 * SCALE) * (20 * SCALE)
    /\ v.framesSinceLaunch < 10

\* the loop over one body from index k down: the closest hit so far
RECURSIVE ClosestInBody(_, _, _, _, _, _)
ClosestInBody(startPos, trajectory, pid, body, k, closest) ==
    IF k < 1 THEN closest
    ELSE LET t == FindTrajectoryVoxelIntersection(startPos, trajectory, body[k].pos)
         IN  IF t # NoHit /\ t >= 0 /\ t <= TSCALE /\ (closest.t = NoHit \/ t < closest.t)
             THEN ClosestInBody(startPos, trajectory, pid, body, k - 1,
                                [t |-> t, playerId |-> pid, playerVoxelIndex |-> k])
             ELSE ClosestInBody(startPos, trajectory, pid, body, k - 1, closest)

\* the player ids of a set in the order they entered the Map
RECURSIVE InsertionOrder(_)
InsertionOrder(S) ==
    IF S = {} THEN <<>>
    ELSE LET first == CHOOSE p \in S : \A q \in S : p <= q
         IN  <<first>> \o InsertionOrder(S \ {first})

\* a guard that looks at the thrower in every tick
GuardedEveryTick(pid, v, acc) == pid = v.throwerId

\* the guard of the thrower test: the player is the thrower and the
\* projectile has not left the thrower's hitbox yet
Guarded(pid, v, acc) == pid = v.throwerId /\ ~acc.hasLeft

\* the loop of handlePlayerCollisionsTrajectory over the players from
\* position k of order: the latch of the projectile, the closest hit, the
\* players whose cells were tested
RECURSIVE ScanPlayers(_, _, _, _, _, _, _)
ScanPlayers(pl, order, k, v, startPos, trajectory, acc) ==
    IF k > Len(order) THEN acc
    ELSE LET pid == order[k]
             guarded == Guarded(pid, v, acc)
             skip == guarded /\ SkipThrower(v, startPos, GetCenterPosition(pl[pid]))
         IN  IF skip
             THEN ScanPlayers(pl, order, k + 1, v, startPos, trajectory,
                              [acc EXCEPT !.skipped = TRUE])
             ELSE ScanPlayers(pl, order, k + 1, v, startPos, trajectory,
                              [acc EXCEPT !.hasLeft = IF guarded THEN TRUE ELSE @,
                                          !.tested = @ \cup {pid},
                                          !.closest = ClosestInBody(startPos, trajectory, pid,
                                                                    pl[pid].bodyVoxels,
                                                                    Len(pl[pid].bodyVoxels), @)])

\* a sequence without its element at index k (Array.splice(k, 1))
Splice(seq, k) == [j \in 1 .. (Len(seq) - 1) |-> IF j < k THEN seq[j] ELSE seq[j + 1]]

\* every intersection in [0,1] of the segment with a cell of the players of
\* a set (observation only)
Intersections(pl, pids, startPos, trajectory) ==
    UNION {{[cell |-> pl[pid].bodyVoxels[k].id,
             t |-> FindTrajectoryVoxelIntersection(startPos, trajectory, pl[pid].bodyVoxels[k].pos)] :
               k \in {j \in 1 .. Len(pl[pid].bodyVoxels) :
                        FindTrajectoryVoxelIntersection(startPos, trajectory, pl[pid].bodyVoxels[j].pos) # NoHit}} :
           pid \in pids}

\* what one call of handlePlayerCollisionsTrajectory did (observation only)
ScanRecord(st, v, startPos, trajectory, acc) ==
    [proj |-> v.id, frames |-> v.framesSinceLaunch, thrower |-> v.throwerId,
     latchedBefore |-> v.hasLeftThrowerHitbox, latchedAfter |-> acc.hasLeft,
     skipped |-> acc.skipped, tested |-> acc.tested,
     near |-> /\ v.throwerId \in DOMAIN st.players
              /\ NormSq(VSub(startPos, GetCenterPosition(st.players[v.throwerId])))
                    <= (20 * SCALE) * (20 * SCALE),
     candidates |-> Intersections(st.players, acc.tested, startPos, trajectory),
     hit |-> IF acc.closest.t = NoHit THEN {}
             ELSE {[cell |-> st.players[acc.closest.playerId].bodyVoxels[acc.closest.playerVoxelIndex].id,
                    t |-> acc.closest.t]}]

\* the end of handlePlayerCollisionsTrajectory: mutual destruction with the
\* closest cell hit, if there is one; st2 is the state after the loop
MutualDestruction(st2, i, startPos, trajectory, hit) ==
    IF hit.t # NoHit
    THEN [st |-> [st2 EXCEPT !.mv[i].pos = VAdd(startPos, VScale(trajectory, hit.t, TSCALE)),
                             !.players[hit.playerId].bodyVoxels = Splice(@, hit.playerVoxelIndex),
                             !.removed = @ \cup {st2.players[hit.playerId].bodyVoxels[hit.playerVoxelIndex].id}],
          result |-> "kill_projectile"]
    ELSE [st |-> st2, result |-> "none"]

\* handlePlayerCollisionsTrajectory after its loop over the players left acc
AfterScan(st, i, startPos, trajectory, acc) ==
    MutualDestruction(
        [st EXCEPT !.mv[i].hasLeftThrowerHitbox = acc.hasLeft,
                   !.log.scans = @ \cup {ScanRecord(st, st.mv[i], startPos, trajectory, acc)}],
        i, startPos, trajectory, acc.closest)

\* MovingVoxel.handlePlayerCollisionsTrajectory of the voxel at index i: the
\* new state and the result, "kill_projectile" or "none"
HandlePlayerCollisionsTrajectory(st, i, startPos, endPos) ==
    IF DOMAIN st.players = {} \/ NormSq(VSub(endPos, startPos)) < 1
    THEN [st |-> st, result |-> "none"]
    ELSE AfterScan(st, i, startPos, VSub(endPos, startPos),
                   ScanPlayers(st.players, InsertionOrder(DOMAIN st.players), 1, st.mv[i],
                               startPos, VSub(endPos, startPos),
                               [hasLeft |-> st.mv[i].hasLeftThrowerHitbox, skipped |-> FALSE,
                                tested |-> {},
                                closest |-> [t |-> NoHit, playerId |-> 0, playerVoxelIndex |-> 0]]))

\* the body of the loop of handleDebrisPlayerCollisions for player pid, given
\* what the loop over the player's cells left
AfterBody(st, i, pid, r) == [st EXCEPT !.mv[i] = r.v, !.players[pid].bodyVoxels = r.body]

\* the loop of handleDebrisPlayerCollisions over the players from position k
RECURSIVE HandleDebrisPlayerCollisions(_, _, _, _)
HandleDebrisPlayerCollisions(st, i, order, k) ==
    IF k > Len(order) THEN st
    ELSE HandleDebrisPlayerCollisions(
             AfterBody(st, i, order[k],
                       DebrisAgainstBody(st.mv[i], st.players[order[k]].bodyVoxels,
                                         Len(st.players[order[k]].bodyVoxels))),
             i, order, k + 1)

-----------------------------------------------------------------------------
(* MovingVoxel.update and the physics tick                                 *)

\* 0.001 s, the step update() backs off from the collision time
BackOff == TPS \div 1000

\* the movement part of MovingVoxel.update for the voxel at index i: gravity,
\* the sweep against the terrain, the collision response
Sweep(st, i, dt, lucky) ==
    LET v == st.mv[i]
        vel == <<v.vel[1], v.vel[2] - RDiv(GRAVITY * SCALE * dt, TPS), v.vel[3]>>
        startPos == v.pos
        endPos == VAdd(startPos, Travel(vel, dt))
        collisionTime == FindCollisionTime(st.world, startPos, endPos, vel, dt)
        safeTime == Max(0, collisionTime - BackOff)
        collision == GetCollisionInfo(st.world, VAdd(startPos, Travel(vel, collisionTime)))
        moved == [st EXCEPT !.mv[i].framesSinceLaunch = IF v.isProjectile THEN @ + 1 ELSE @,
                            !.mv[i].vel = vel,
                            !.mv[i].pos = IF collisionTime # NoCollision
                                          THEN VAdd(startPos, Travel(vel, safeTime))
                                          ELSE endPos,
                            !.log.updated = @ \cup {v.id},
                            !.log.sweeps = @ \cup
                                {[id |-> v.id,
                                  blocked |-> collisionTime # NoCollision,
                                  slow |-> NormSq(Travel(vel, dt)) < (2 * VOXEL_SIZE) * (2 * VOXEL_SIZE),
                                  startValid |-> IsPositionValid(st.world, startPos),
                                  resolved |-> IF collisionTime # NoCollision
                                               THEN VAdd(startPos, Travel(vel, safeTime))
                                               ELSE endPos]}]
    IN  IF collisionTime # NoCollision /\ collision.block # NoBlock
        THEN HandleCollision(moved, i, collision, lucky)
        ELSE moved

\* debris is tested against the players' cells, a projectile is not
DebrisOnly(st2, i) ==
    IF ~st2.mv[i].isProjectile
    THEN HandleDebrisPlayerCollisions(st2, i, InsertionOrder(DOMAIN st2.players), 1)
    ELSE st2

\* the vertical velocity the voxel id left the floor with the last time it
\* bounced, -1 if it has not bounced (observation only)
LastRebound(lg, id) ==
    IF \E r \in lg.rebound : r.id = id
    THEN (CHOOSE r \in lg.rebound : r.id = id).vel
    ELSE -1

\* the log after handleWorldBoundaries turned v into v2: a bounce on the
\* floor is noted with the velocities before and after, and with whether v
\* was the only body in flight (observation only)
NoteBounce(lg, v, v2, alone) ==
    IF v.pos[2] < VOXEL_SIZE /\ v.vel[2] < 0
    THEN [lg EXCEPT !.bounces = @ \cup {[id |-> v.id, isProjectile |-> v.isProjectile,
                                          velIn |-> v.vel, velOut |-> v2.vel, alone |-> alone,
                                          prev |-> IF alone THEN LastRebound(lg, v.id) ELSE -1]},
                    !.rebound = {r \in @ : r.id # v.id} \cup {[id |-> v.id, vel |-> v2.vel[2]]}]
    ELSE lg

\* the rest of MovingVoxel.update after the player test: boundaries, other
\* voxels, debris against players, settling
AfterPlayers(st, i) ==
    CheckSettling(
        DebrisOnly([st EXCEPT !.mv = HandleVoxelCollisions(
                                         [@ EXCEPT ![i] = HandleWorldBoundaries(@)], i, 1),
                              !.log = NoteBounce(@, st.mv[i], HandleWorldBoundaries(st.mv[i]), Len(st.mv) = 1)],
                   i),
        i)

\* the end of MovingVoxel.update, given the outcome of the player test
UpdateAfterHit(hit, i) ==
    IF hit.result = "kill_projectile" THEN hit
    ELSE AfterPlayers(hit.st, i)

\* the player test of MovingVoxel.update on the state st1 after the sweep:
\* the travelled segment is recomputed from the position and the velocity
UpdateAfterSweep(st1, i, dt) ==
    UpdateAfterHit(
        IF st1.mv[i].isProjectile
        THEN HandlePlayerCollisionsTrajectory(
                 st1, i, VSub(st1.mv[i].pos, Travel(st1.mv[i].vel, dt)), st1.mv[i].pos)
        ELSE [st |-> st1, result |-> "none"],
        i)

\* MovingVoxel.update of the voxel at index i: the new state and the result
Update(st, i, dt, lucky) == UpdateAfterSweep(Sweep(st, i, dt, lucky), i, dt)

\* a loop body that splices out killed voxels only
RemoveKilledOnly(r, id, i) ==
    IF r.result = "kill_projectile"
    THEN [r.st EXCEPT !.mv = Splice(@, i),
                      !.log.gone = @ \cup {id},
                      !.log.results = @ \cup {<<id, r.result>>}]
    ELSE r.st

\* a loop body that splices out settled voxels only
RemoveSettledOnly(r, id, i) ==
    IF r.result = "settled"
    THEN [r.st EXCEPT !.mv = Splice(@, i),
                      !.log.gone = @ \cup {id},
                      !.log.results = @ \cup {<<id, r.result>>}]
    ELSE r.st

\* the body of the loop of VoxelServer.updateMovingVoxels after update()
\* returned r for the voxel id at index i: settled and killed voxels are
\* spliced out of the moving set
RemoveFinished(r, id, i) ==
    IF r.result = "settled" \/ r.result = "kill_projectile"
    THEN [r.st EXCEPT !.mv = Splice(@, i),
                      !.log.gone = @ \cup {id},
                      !.log.results = @ \cup {<<id, r.result>>}]
    ELSE r.st

\* VoxelServer.updateMovingVoxels: the loop from index i down to 1
RECURSIVE UpdateMovingVoxels(_, _, _, _)
UpdateMovingVoxels(st, i, dt, lucky) ==
    IF i < 1 THEN st
    ELSE UpdateMovingVoxels(RemoveFinished(Update(st, i, dt, lucky), st.mv[i].id, i),
                            i - 1, dt, lucky)

\* a body with near-zero velocity (at most 1 cell/s) whose settle target is an
\* empty in-bounds cell (observation only)
AtRestOverFreeCell(w, v) ==
    /\ NormSq(v.vel) <= SCALE * SCALE
    /\ IsFreeCell(w, SettleTarget(v.pos)[1], SettleTarget(v.pos)[2], SettleTarget(v.pos)[3])

\* what a step that is not a tick leaves in the log
QuietLog(kind) ==
    [log EXCEPT !.kind = kind, !.rebuilds = 0, !.changes = 0, !.scans = {}, !.settles = {},
                !.destroyed = {}, !.updated = {}, !.sweeps = {}, !.results = {},
                !.dirtyAtEnd = terrainNeedsRebuild, !.op = <<>>, !.dt = 0, !.atStart = {}, !.placed = {},
                !.collisions = {}, !.msg = "none", !.before = <<>>,
                !.bounces = {}]

\* the end of VoxelServer.updatePhysics on the state st1 after the moving
\* voxels: the rebuild of the height map if the grid's flag is set
RebuildIfNeeded(st1, rebuilt) ==
    IF st1.dirty
    THEN [st1 EXCEPT !.dirty = rebuilt.terrainNeedsRebuild,
                     !.log.rebuilds = @ + 1,
                     !.log.rebuiltWhilePending = log.pending \/ st1.log.changes > 0,
                     !.log.pending = FALSE,
                     !.log.dirtyAtEnd = rebuilt.terrainNeedsRebuild]
         @@ [heights |-> rebuilt.heights]
    ELSE [st1 EXCEPT !.log.pending = log.pending \/ st1.log.changes > 0,
                     !.log.dirtyAtEnd = st1.dirty]
         @@ [heights |-> heights]

\* the state a tick starts from, the players already moved
TickStart(moved, dt) ==
    [world |-> world, dirty |-> terrainNeedsRebuild, mv |-> movingVoxels,
     players |-> moved, nextVoxelId |-> nextVoxelId, removed |-> removedCells,
     log |-> [QuietLog("tick") EXCEPT
                 !.goneBefore = log.gone, !.dt = dt,
                 !.atStart = Range(movingVoxels),
                 !.rebound = IF Len(movingVoxels) > 1 THEN {} ELSE @,
                 !.placed = {v.id : v \in {u \in Range(movingVoxels) : AtRestOverFreeCell(world, u)}}]]

\* the moving voxels of a tick and the rebuild that follows them
AfterMovingVoxels(st1) == RebuildIfNeeded(st1, RebuildHeightMap(st1.world))

\* VoxelServer.updatePhysics(dt) as a state transformer: players first, then
\* the moving voxels, then the rebuild of the height map if the grid's flag
\* is set
UpdatePhysics(dt, lucky) ==
    AfterMovingVoxels(
        UpdateMovingVoxels(
            TickStart([pid \in DOMAIN players |-> PlayerUpdatePhysics(players[pid], dt, heights)], dt),
            Len(movingVoxels), dt, lucky))

-----------------------------------------------------------------------------
(* VoxelServer: connections, messages, the tick                            *)

\* the sockets that have connected so far are 1 .. budget.sockets
Sockets == 1 .. MaxSockets

\* clients connect, send and leave, and the loop stalls, during the first
\* ticks of a run
Eventful == budget.ticks <= MaxEventTick

\* the time steps of the loop: 1/SERVER_TICK_RATE s when the loop keeps its
\* rate, four times that after a stall (dt is the wall-clock difference)
NominalDt == TPS \div SERVER_TICK_RATE
LongDt == 4 * NominalDt

EmptyLog ==
    [kind |-> "init", rebuilds |-> 0, changes |-> 0, pending |-> TRUE,
     rebuiltWhilePending |-> TRUE, dirtyAtEnd |-> TRUE,
     scans |-> {}, settles |-> {}, destroyed |-> {}, updated |-> {}, sweeps |-> {},
     results |-> {}, gone |-> {}, goneBefore |-> {}, op |-> <<>>, dt |-> 0, atStart |-> {}, placed |-> {},
     collisions |-> {}, triggered |-> {}, msg |-> "none", before |-> <<>>,
     bounces |-> {}, rebound |-> {}]

\* new VoxelServer(): the generated world with its height map; the flag is
\* set because generateWorld goes through setWorld
Init ==
    /\ \E var \in TerrainChoices : world = GenerateWorld(var)
    /\ heights = CountColumns(world)
    /\ terrainNeedsRebuild = TRUE
    /\ players = <<>>
    /\ clients = <<>>
    /\ movingVoxels = <<>>
    /\ nextPlayerId = 1
    /\ nextVoxelId = 1
    /\ budget = [ticks |-> 0, longTicks |-> 0, shots |-> 0, inputs |-> 0, sockets |-> 0, gridOps |-> 0]
    /\ log = EmptyLog
    /\ removedCells = {}

\* VoxelServer.addPlayer(ws) on the maps
AddPlayer(pl, cl, ws, playerId) ==
    [players |-> pl @@ (playerId :> NewPlayer(playerId)),
     clients |-> cl @@ (ws :> playerId)]

\* wss.on('connection'): a new socket, registered at once
Connect ==
    /\ Eventful
    /\ budget.sockets < MaxSockets
    /\ LET r == AddPlayer(players, clients, budget.sockets + 1, nextPlayerId)
       IN  /\ players' = r.players
           /\ clients' = r.clients
    /\ nextPlayerId' = nextPlayerId + 1
    /\ budget' = [budget EXCEPT !.sockets = @ + 1]
    /\ log' = QuietLog("connect")
    /\ UNCHANGED <<world, heights, terrainNeedsRebuild, movingVoxels, nextVoxelId, removedCells>>

\* removePlayer(ws) that forgets the socket and keeps its player
RemovePlayerKeepsPlayer(pl, cl, ws) ==
    IF ws \in DOMAIN cl
    THEN [players |-> pl, clients |-> [w \in DOMAIN cl \ {ws} |-> cl[w]]]
    ELSE [players |-> pl, clients |-> cl]

\* VoxelServer.removePlayer(ws) on the maps
RemovePlayer(pl, cl, ws) ==
    IF ws \in DOMAIN cl
    THEN [players |-> [pid \in DOMAIN pl \ {cl[ws]} |-> pl[pid]],
          clients |-> [w \in DOMAIN cl \ {ws} |-> cl[w]]]
    ELSE [players |-> pl, clients |-> cl]

\* ws.on('close') and ws.on('error')
Disconnect(ws) ==
    /\ Eventful
    /\ ws \in DOMAIN clients
    /\ LET r == RemovePlayer(players, clients, ws)
       IN  /\ players' = r.players
           /\ clients' = r.clients
    /\ log' = QuietLog("disconnect")
    /\ UNCHANGED <<world, heights, terrainNeedsRebuild, movingVoxels, nextPlayerId,
                   nextVoxelId, budget, removedCells>>

\* VoxelServer.spawnProjectile(pos, dir, throwerId) on the moving set; dir
\* is in 1/SCALE, so dir * 2.0 and dir * 80 are whole
SpawnProjectile(mv, id, pos, dir, throwerId) ==
    LET offset == 2
        spawnPos == <<pos[1] + dir[1] * offset, pos[2] + dir[2] * offset, pos[3] + dir[3] * offset>>
    IN  Append(mv, NewMovingVoxel(id, spawnPos, dir, TRUE, throwerId))

\* the shots a client sends: cameraPos and cameraDir are not validated
ShotChoices(p) ==
    { \* slowly sideways from the middle of the own body
      [name |-> "self", pos |-> VSub(p.centerPos, <<2, 0, 0>>), dir |-> <<1, 0, 0>>],
      \* at rest in the top corner cell of the grid
      [name |-> "drop", pos |-> <<HALF, (WORLD_SIZE - 1) * SCALE + HALF, HALF>>, dir |-> <<0, 0, 0>>],
      \* at rest far above the grid
      [name |-> "void", pos |-> <<HALF, (WORLD_SIZE + 5) * SCALE + HALF, HALF>>, dir |-> <<0, 0, 0>>],
      \* straight down from a cell and a half above the middle of the own body
      [name |-> "down", pos |-> VAdd(p.centerPos, <<0, SCALE + HALF, 0>>), dir |-> <<0, -SCALE, 0>>],
      \* straight down from more than 20 cells above the own body
      [name |-> "far", pos |-> VAdd(p.centerPos, <<0, 23 * SCALE, 0>>), dir |-> <<0, -SCALE, 0>>] }

KeyChoices == {{}, {"w"}, {"d"}, {"w", "d"}}
CameraChoices == {<<1, 1000>>, <<2, InitialPitchCos>>}

\* VoxelServer.handleClientMessage for a registered socket: the players and
\* the moving set afterwards
HandleClientMessage(ws, msg) ==
    LET pid == clients[ws]
        p == players[pid]
    IN  CASE msg.type = "keydown" ->
               [players |-> [players EXCEPT ![pid] = Jump(p)], mv |-> movingVoxels, shots |-> 0]
          [] msg.type = "camera" ->
               [players |-> [players EXCEPT ![pid] = UpdateCamera(p, msg.yaw, msg.pitchCos)],
                mv |-> movingVoxels, shots |-> 0]
          [] msg.type = "inputState" ->
               [players |-> [players EXCEPT ![pid] = UpdateKeys(p, msg.keys)],
                mv |-> movingVoxels, shots |-> 0]
          [] msg.type = "shoot" ->
               [players |-> players,
                mv |-> SpawnProjectile(movingVoxels, nextVoxelId, msg.cameraPos, msg.cameraDir, pid),
                shots |-> 1]
          [] OTHER -> \* requestInitialState of a registered socket, ping
               [players |-> players, mv |-> movingVoxels, shots |-> 0]

\* ws.on('message') for a registered socket
Deliver(ws, msg) ==
    /\ ws \in DOMAIN clients
    /\ LET r == HandleClientMessage(ws, msg)
       IN  /\ players' = r.players
           /\ movingVoxels' = r.mv
           /\ nextVoxelId' = nextVoxelId + r.shots
           /\ budget' = [budget EXCEPT !.inputs = @ + 1 - r.shots, !.shots = @ + r.shots]
    /\ log' = [QuietLog("message") EXCEPT !.msg = msg.type]
    /\ UNCHANGED <<world, heights, terrainNeedsRebuild, clients, nextPlayerId, removedCells>>

Message(ws, msg) ==
    /\ Eventful
    /\ Deliver(ws, msg)

\* the message {type: 'requestInitialState'}
RequestInitialState(ws) ==
    /\ budget.inputs < MaxInputs
    /\ Message(ws, [type |-> "requestInitialState"])

\* the message {type: 'input', data: {type: 'keydown', key: ' '}}
KeyDown(ws) ==
    /\ budget.inputs < MaxInputs
    /\ Message(ws, [type |-> "keydown"])

\* the message {type: 'input', data: {type: 'camera', ...}}
Camera(ws) ==
    /\ budget.inputs < MaxInputs
    /\ \E c \in CameraChoices : Message(ws, [type |-> "camera", yaw |-> c[1], pitchCos |-> c[2]])

\* the message {type: 'inputState', data: {keys}}
InputState(ws) ==
    /\ budget.inputs < MaxInputs
    /\ \E k \in KeyChoices : Message(ws, [type |-> "inputState", keys |-> k])

\* the message {type: 'input', data: {type: 'shoot', cameraPos, cameraDir}}
Shoot(ws) ==
    /\ budget.shots < MaxShots
    /\ ws \in DOMAIN clients
    /\ \E shot \in ShotChoices(players[clients[ws]]) :
          Message(ws, [type |-> "shoot", cameraPos |-> shot.pos, cameraDir |-> shot.dir])

\* the cells createDestruction makes a Math.random() draw for in a run of
\* updatePhysics(dt): those dislodged when every draw succeeds
DrawnCells(all) == UNION {d.cells : d \in all.log.destroyed}

\* the subsets of S with at most n elements
RECURSIVE SubsetsUpTo(_, _)
SubsetsUpTo(S, n) ==
    IF n = 0 THEN {{}}
    ELSE SubsetsUpTo(S, n - 1) \cup {l \cup {x} : l \in SubsetsUpTo(S, n - 1), x \in S}

\* one run of VoxelServer.updatePhysics(dt); the draws of createDestruction
\* succeed for a set of at most n cells; before is what the log keeps of the
\* players the run started from
PhysicsStepLogged(dt, n, before) ==
    \E all \in {UpdatePhysics(dt, Cells)} :
      \E lucky \in SubsetsUpTo(DrawnCells(all), n) :
        \E r \in {IF lucky = DrawnCells(all) THEN all ELSE UpdatePhysics(dt, lucky)} :
            /\ world' = r.world
            /\ heights' = r.heights
            /\ terrainNeedsRebuild' = r.dirty
            /\ players' = r.players
            /\ movingVoxels' = r.mv
            /\ nextVoxelId' = r.nextVoxelId
            /\ removedCells' = r.removed
            /\ log' = [r.log EXCEPT !.before = before]
            /\ UNCHANGED <<clients, nextPlayerId>>

\* one run of VoxelServer.updatePhysics(dt) with at most n successful draws
PhysicsStepUpTo(dt, n) == PhysicsStepLogged(dt, n, <<>>)

\* one run of VoxelServer.updatePhysics(dt) with at most MaxDislodged
\* successful draws
PhysicsStep(dt) == PhysicsStepUpTo(dt, MaxDislodged)

\* a tick of the loop at its rate
Tick ==
    /\ budget.ticks < MaxTicks
    /\ budget' = [budget EXCEPT !.ticks = @ + 1]
    /\ PhysicsStep(NominalDt)

\* a tick after a stall
LongTick ==
    /\ Eventful
    /\ budget.ticks < MaxTicks
    /\ budget.longTicks < MaxLongTicks
    /\ budget' = [budget EXCEPT !.ticks = @ + 1, !.longTicks = @ + 1]
    /\ PhysicsStep(LongDt)

Next ==
    \/ Connect
    \/ \E ws \in Sockets : Disconnect(ws)
    \/ \E ws \in Sockets : RequestInitialState(ws)
    \/ \E ws \in Sockets : KeyDown(ws)
    \/ \E ws \in Sockets : Camera(ws)
    \/ \E ws \in Sockets : InputState(ws)
    \/ \E ws \in Sockets : Shoot(ws)
    \/ Tick
    \/ LongTick

Spec == Init /\ [][Next]_vars

-----------------------------------------------------------------------------
(* Impacts: clients that shoot at the terrain                              *)

\* the top of the flat terrain, in 1/SCALE cell
FlatTop == (WORLD_BASE_HEIGHT + TERRAIN_HEIGHT) * SCALE

\* the shots of a client at the terrain (cameraPos and cameraDir are not
\* validated, so a direction shorter than 1 gives a slower projectile)
ImpactChoices ==
    { \* straight down at 28 cells/s: gravity brings it to 29.6 at the impact
      [name |-> "slab", pos |-> <<2 * SCALE + HALF, FlatTop + 2 * SCALE + 4, 2 * SCALE + HALF>>,
       dir |-> <<0, -7, 0>>],
      \* straight down at 80 cells/s
      [name |-> "down", pos |-> <<2 * SCALE + HALF, FlatTop + 3 * SCALE + HALF, 2 * SCALE + HALF>>,
       dir |-> <<0, -SCALE, 0>>],
      \* along X at 80 cells/s, half a cell above the flat terrain
      [name |-> "side", pos |-> <<-SCALE, FlatTop + HALF, 2 * SCALE + HALF>>,
       dir |-> <<SCALE, 0, 0>>] }

\* the message {type: 'input', data: {type: 'shoot', cameraPos, cameraDir}}
\* with one of the shots at the terrain
ShootImpact(ws) ==
    /\ budget.shots < MaxShots
    /\ \E shot \in ImpactChoices :
          Message(ws, [type |-> "shoot", cameraPos |-> shot.pos, cameraDir |-> shot.dir])

\* a tick of the loop at its rate, with up to MaxImpactDebris successful draws
ImpactTick ==
    /\ budget.ticks < MaxTicks
    /\ budget' = [budget EXCEPT !.ticks = @ + 1]
    /\ PhysicsStepUpTo(NominalDt, MaxImpactDebris)

NextImpact ==
    \/ Connect
    \/ \E ws \in Sockets : ShootImpact(ws)
    \/ ImpactTick

SpecImpact == Init /\ [][NextImpact]_vars

-----------------------------------------------------------------------------
(* Players: one connected player that walks, jumps and loses cells         *)

MaxPlayerTicks == 3
MaxPlayerInputs == 2

\* the height caches a player walks on: that of the flat terrain, and one
\* with a wall of 8 more cells half way along X (a world of the real size
\* holds such a wall, the scaled grid does not; Player reads the cache only)
PlayerHeightMaps ==
    { [c \in Columns |-> TERRAIN_HEIGHT],
      [c \in Columns |-> IF c[1] >= WORLD_SIZE \div 2 THEN TERRAIN_HEIGHT + 8 ELSE TERRAIN_HEIGHT] }

\* what is left of a body, as patterns of createVoxelBody: the whole body of
\* the scaled player, and remnants of a body of the real extents (8 by 16)
\* after most of its cells were destroyed: two cells next to the centre, one
\* cell three layers below it, two cells two columns beside it, one cell
\* five columns beside it
RemnantChoices ==
    { BodyPatterns,
      << <<0, 0, 0>>, <<-1, 0, 0>> >>,
      << <<0, -3, 0>> >>,
      << <<2, -1, 0>>, <<2, 0, 0>> >>,
      << <<5, -2, 0>> >> }

\* the cells of the patterns pats around a centre that has followed the mean
\* of the whole body (half a cell off the corner createVoxelBody starts from)
RemnantBody(playerId, centerPos, pats) ==
    [k \in 1 .. Len(pats) |->
        [id |-> <<playerId, k>>,
         pos |-> <<centerPos[1] + pats[k][1] * SCALE + HALF,
                   centerPos[2] + pats[k][2] * SCALE + HALF,
                   centerPos[3] + pats[k][3] * SCALE + HALF>>,
         vel |-> <<0, 0, 0>>]]

\* the X of the centre: the middle of a column, just before the next column,
\* and at the margin enforceBoundaries keeps from the end of the world
PlayerXChoices ==
    {SCALE + HALF, 2 * SCALE - 2, WORLD_SIZE * SCALE - RDiv(PLAYER_HALF_WIDTH * SCALE, 16)}

\* the heights above the resting height and the vertical velocities: at rest
\* on the ground, and falling two cells above it
PlayerYChoices ==
    { [up |-> 0, velY |-> 0, grounded |-> TRUE],
      [up |-> 2 * SCALE, velY |-> -5 * SCALE, grounded |-> FALSE] }

\* the players of the height cache h
PlayerChoices(h) ==
    { LET c == <<x, (WORLD_BASE_HEIGHT + h[<<Floor(x), 1>>] + PLAYER_HALF_HEIGHT) * SCALE + y.up,
                 SCALE + HALF>>
      IN  [id |-> 1,
           centerPos |-> c,
           velY |-> y.velY,
           grounded |-> y.grounded,
           yaw |-> yaw,
           pitchCos |-> InitialPitchCos,
           keys |-> keys,
           bodyVoxels |-> RemnantBody(1, c, pats)] :
        x \in PlayerXChoices, y \in PlayerYChoices, yaw \in {0, 1}, keys \in {{}, {"w"}},
        pats \in RemnantChoices }

\* a server with one connected player somewhere in a game, the height map
\* rebuilt and nothing in flight
InitPlayer ==
    /\ world = GenerateWorld([c \in Columns |-> 0])
    /\ heights \in PlayerHeightMaps
    /\ terrainNeedsRebuild = FALSE
    /\ players \in {(1 :> p) : p \in PlayerChoices(heights)}
    /\ clients = (1 :> 1)
    /\ movingVoxels = <<>>
    /\ nextPlayerId = 2
    /\ nextVoxelId = 1
    /\ budget = [ticks |-> 0, longTicks |-> 0, shots |-> 0, inputs |-> 0, sockets |-> 1, gridOps |-> 0]
    /\ log = EmptyLog
    /\ removedCells = {}

\* the message {type: 'input', data: {type: 'keydown', key: ' '}} at any time
PlayerKeyDown(ws) ==
    /\ budget.inputs < MaxPlayerInputs
    /\ Deliver(ws, [type |-> "keydown"])

\* the message {type: 'inputState', data: {keys}} at any time
PlayerInputState(ws) ==
    /\ budget.inputs < MaxPlayerInputs
    /\ \E k \in {{}, {"w"}} : Deliver(ws, [type |-> "inputState", keys |-> k])

\* a tick of the loop, at its rate or after a stall
PlayerTick ==
    /\ budget.ticks < MaxPlayerTicks
    /\ budget' = [budget EXCEPT !.ticks = @ + 1]
    /\ \E dt \in {NominalDt, LongDt} : PhysicsStepLogged(dt, 0, players)

NextPlayer ==
    \/ \E ws \in Sockets : PlayerKeyDown(ws)
    \/ \E ws \in Sockets : PlayerInputState(ws)
    \/ PlayerTick

SpecPlayer == InitPlayer /\ [][NextPlayer]_vars

-----------------------------------------------------------------------------
(* The world floor: bodies that fall where the terrain has been dug away   *)

MaxBounceTicks == 8

\* the flat terrain after destructions have emptied every column but those
\* at the far end of X
DugWorld == {c \in GenerateWorld([col \in Columns |-> 0]) : c[1] = WORLD_SIZE - 1}

\* the shots of a client over the dug ground
BounceChoices ==
    { \* released at rest three cells and a half above the floor
      [name |-> "drop", pos |-> <<SCALE + HALF, 3 * SCALE + HALF, SCALE + HALF>>, dir |-> <<0, 0, 0>>],
      \* along X at 12 cells/s, just above the floor
      [name |-> "skim", pos |-> <<HALF, HALF, SCALE + HALF>>, dir |-> <<3, 0, 0>>],
      \* along X at 12 cells/s and down at 8 cells/s, one cell above the floor
      [name |-> "dive", pos |-> <<HALF, SCALE + HALF, SCALE + HALF>>, dir |-> <<3, -2, 0>>] }

\* a server whose terrain has been dug away, the height map rebuilt
InitBounce ==
    /\ world = DugWorld
    /\ heights = CountColumns(world)
    /\ terrainNeedsRebuild = FALSE
    /\ players = <<>>
    /\ clients = <<>>
    /\ movingVoxels = <<>>
    /\ nextPlayerId = 1
    /\ nextVoxelId = 1
    /\ budget = [ticks |-> 0, longTicks |-> 0, shots |-> 0, inputs |-> 0, sockets |-> 0, gridOps |-> 0]
    /\ log = EmptyLog
    /\ removedCells = {}

\* the message {type: 'input', data: {type: 'shoot', cameraPos, cameraDir}}
\* with one of the shots over the dug ground
ShootBounce(ws) ==
    /\ budget.shots < MaxShots
    /\ \E shot \in BounceChoices :
          Message(ws, [type |-> "shoot", cameraPos |-> shot.pos, cameraDir |-> shot.dir])

\* a tick of the loop, at its rate or after a stall
BounceTick ==
    /\ budget.ticks < MaxBounceTicks
    /\ budget' = [budget EXCEPT !.ticks = @ + 1]
    /\ \E dt \in {NominalDt, LongDt} : PhysicsStepUpTo(dt, 0)

NextBounce ==
    \/ Connect
    \/ \E ws \in Sockets : ShootBounce(ws)
    \/ BounceTick

SpecBounce == InitBounce /\ [][NextBounce]_vars

-----------------------------------------------------------------------------
(* Knockback: MovingVoxel of src/game, whose projectiles knock cells off   *)
(* the players                                                             *)

MaxKnockTicks == 4

\* the 8 corners getCollisionInfo of src/game looks at, in its order
CornerChecks(p) ==
    [k \in 1 .. 8 |->
        <<Floor(p[1] + (IF (k - 1) % 2 = 0 THEN -VOXEL_SIZE ELSE VOXEL_SIZE)),
          Floor(p[2] + (IF ((k - 1) \div 2) % 2 = 0 THEN -VOXEL_SIZE ELSE VOXEL_SIZE)),
          Floor(p[3] + (IF (k - 1) \div 4 = 0 THEN -VOXEL_SIZE ELSE VOXEL_SIZE))>>]

\* the loop of getCollisionInfo of src/game: the first of the solid blocks
\* whose index is nearest to the position
RECURSIVE NearestCorner(_, _, _, _, _, _)
NearestCorner(w, p, checks, k, best, bestDistSq) ==
    IF k > Len(checks) THEN best
    ELSE LET c == checks[k]
             dSq == NormSq(VSub(<<c[1] * SCALE, c[2] * SCALE, c[3] * SCALE>>, p))
         IN  IF GetWorld(w, c[1], c[2], c[3]) = 1 /\ (best = NoBlock \/ dSq < bestDistSq)
             THEN NearestCorner(w, p, checks, k + 1, c, dSq)
             ELSE NearestCorner(w, p, checks, k + 1, best, bestDistSq)

\* getCollisionInfo of src/game: the axis with the largest distance from the
\* centre of the block
GetCollisionInfoCorners(w, p) ==
    LET b == NearestCorner(w, p, CornerChecks(p), 1, NoBlock, 0)
        dx == Abs(p[1] - BlockCenter(b)[1])
        dy == Abs(p[2] - BlockCenter(b)[2])
        dz == Abs(p[3] - BlockCenter(b)[3])
    IN  IF b = NoBlock THEN [block |-> NoBlock, axis |-> 0]
        ELSE [block |-> b,
              axis |-> IF dy > dx /\ dy > dz THEN 2 ELSE IF dz > dx /\ dz > dy THEN 3 ELSE 1]

\* the identity of a body cell once it is in the moving set: the cell k of
\* player pid is the object -(100 pid + k) there
EjectedId(cellId) == -(100 * cellId[1] + cellId[2])

\* the draws (Math.random() - 0.5) * 8, Math.random() * 10 + 5 and
\* (Math.random() - 0.5) * 8 of a knockback, in cells/s
KnockDraws == {<<-4, 5, -4>>, <<3, 14, 0>>}

\* the cell k of player pid as handlePlayerVoxelCollision leaves it when the
\* projectile v knocks it off: outside the body, flying away from its centre
EjectedCell(v, p, k, draw) ==
    LET cell == p.bodyVoxels[k]
        playerCenter == GetCenterPosition(p)
        away == VSub(cell.pos, playerCenter)
        ejectionDir == IF NormSq(away) < 2 * 2 THEN v.vel ELSE away
        len == Norm(ejectionDir)
    IN  [id |-> EjectedId(cell.id),
         pos |-> VAdd(playerCenter, VScale(ejectionDir, 5 * HALF, len)),
         vel |-> VAdd(VScale(ejectionDir, 15 * SCALE, len),
                      <<draw[1] * SCALE, draw[2] * SCALE, draw[3] * SCALE>>),
         lastPos |-> CreateVoxelBody(p.id, SpawnPosition)[cell.id[2]].pos,
         isProjectile |-> FALSE,
         hasCollided |-> FALSE,
         throwerId |-> 0,
         hasLeftThrowerHitbox |-> FALSE,
         framesSinceLaunch |-> 0,
         isPlayerVoxel |-> FALSE]

\* a knockback that leaves the cell in the body as well
KnockOffKeepsCell(st, i, pid, k, draw) ==
    [st EXCEPT !.mv = Append([@ EXCEPT ![i].hasCollided = TRUE,
                                        ![i].vel = VScale(@, 2, 10)],
                             EjectedCell(st.mv[i], st.players[pid], k, draw))]

\* the knockback of handlePlayerVoxelCollision and the splice of its caller:
\* the cell is pushed on the moving set and taken out of the body, the
\* projectile keeps a fifth of its velocity
KnockOff(st, i, pid, k, draw) ==
    [st EXCEPT !.mv = Append([@ EXCEPT ![i].hasCollided = TRUE,
                                        ![i].vel = VScale(@, 2, 10)],
                             EjectedCell(st.mv[i], st.players[pid], k, draw)),
               !.players[pid].bodyVoxels = Splice(@, k),
               !.removed = @ \cup {st.players[pid].bodyVoxels[k].id}]

\* "speed > 10" of handlePlayerVoxelCollision
FastEnoughToKnock(vel) == NormSq(vel) > (10 * SCALE) * (10 * SCALE)

\* handlePlayerVoxelCollision of src/game for the projectile at index i and
\* the cell k of player pid, with the splice of the caller
HandlePlayerVoxelCollisionKnockback(st, i, pid, k, draw) ==
    LET v == st.mv[i]
        r == HandleVoxelCollision(v, st.players[pid].bodyVoxels[k])
    IN  IF FastEnoughToKnock(v.vel) /\ v.isProjectile /\ ~v.hasCollided
        THEN KnockOff(st, i, pid, k, draw)
        ELSE [st EXCEPT !.mv[i] = [r[1] EXCEPT !.hasCollided = IF v.isProjectile THEN TRUE ELSE @],
                        !.players[pid].bodyVoxels[k] = r[2]]

\* the thrower test of handlePlayerCollisions of src/game: the projectile is
\* within 20 of the thrower's centre and at most 10 frames old
SkipThrowerPoint(v, throwerCenter) ==
    /\ NormSq(VSub(v.pos, throwerCenter)) <= (20 * SCALE) * (20 * SCALE)
    /\ v.framesSinceLaunch <= 10

\* the loop of handlePlayerCollisions of src/game over the cells of player
\* pid from index k down: the state and whether the method returned
RECURSIVE KnockAgainstBody(_, _, _, _, _)
KnockAgainstBody(st, i, pid, k, draw) ==
    IF k < 1 THEN [st |-> st, result |-> "none"]
    ELSE IF CheckVoxelToVoxelCollision(st.mv[i], st.players[pid].bodyVoxels[k])
         THEN [st |-> HandlePlayerVoxelCollisionKnockback(st, i, pid, k, draw), result |-> "continue"]
         ELSE KnockAgainstBody(st, i, pid, k - 1, draw)

\* handlePlayerCollisions of src/game: the loop over the players from
\* position j of order
RECURSIVE HandlePlayerCollisions(_, _, _, _, _)
HandlePlayerCollisions(st, i, order, j, draw) ==
    IF j > Len(order) THEN [st |-> st, result |-> "none"]
    ELSE LET pid == order[j]
             v == st.mv[i]
             guarded == pid = v.throwerId /\ ~v.hasLeftThrowerHitbox
             skip == guarded /\ SkipThrowerPoint(v, GetCenterPosition(st.players[pid]))
             st2 == [st EXCEPT !.mv[i].hasLeftThrowerHitbox = IF guarded /\ ~skip THEN TRUE ELSE @]
             r == KnockAgainstBody(st2, i, pid, Len(st2.players[pid].bodyVoxels), draw)
         IN  IF skip THEN HandlePlayerCollisions(st, i, order, j + 1, draw)
             ELSE IF r.result = "continue" THEN r
             ELSE HandlePlayerCollisions(st2, i, order, j + 1, draw)

\* the player test of update of src/game, made before and after the move
PlayerTest(st, i, draw) ==
    IF st.mv[i].isProjectile /\ ~st.mv[i].hasCollided
    THEN HandlePlayerCollisions(st, i, InsertionOrder(DOMAIN st.players), 1, draw)
    ELSE [st |-> st, result |-> "none"]

\* the move of update of src/game: the sweep against the terrain and the
\* collision response
MoveKnockback(st, i, dt, lucky) ==
    LET v == st.mv[i]
        startPos == v.pos
        endPos == VAdd(startPos, Travel(v.vel, dt))
        collisionTime == FindCollisionTime(st.world, startPos, endPos, v.vel, dt)
        safeTime == Max(0, collisionTime - BackOff)
        collision == GetCollisionInfoCorners(st.world, VAdd(startPos, Travel(v.vel, collisionTime)))
        stopped == [st EXCEPT !.mv[i].pos = VAdd(startPos, Travel(v.vel, safeTime))]
    IN  IF collisionTime # NoCollision /\ collisionTime > 0
        THEN IF collision.block # NoBlock THEN HandleCollision(stopped, i, collision, lucky)
             ELSE stopped
        ELSE [st EXCEPT !.mv[i].pos = endPos]

\* the end of update of src/game, given the outcome of the second player test
AfterSecondTest(hit, i) ==
    IF hit.result = "continue" THEN hit ELSE AfterPlayers(hit.st, i)

\* update of src/game after the first player test
AfterFirstTest(hit, i, dt, lucky, draw) ==
    IF hit.result = "continue" THEN hit
    ELSE AfterSecondTest(PlayerTest(MoveKnockback(hit.st, i, dt, lucky), i, draw), i)

\* MovingVoxel.update of src/game for the voxel at index i
UpdateKnockback(st, i, dt, lucky, draw) ==
    IF st.mv[i].isPlayerVoxel THEN [st |-> st, result |-> "continue"]
    ELSE AfterFirstTest(
             PlayerTest([st EXCEPT !.mv[i].framesSinceLaunch = IF st.mv[i].isProjectile THEN @ + 1 ELSE @,
                                   !.mv[i].vel[2] = @ - RDiv(GRAVITY * SCALE * dt, TPS),
                                   !.log.updated = @ \cup {st.mv[i].id}],
                        i, draw),
             i, dt, lucky, draw)

\* VoxelServer.updateMovingVoxels with update of src/game: the loop from
\* index i down to 1
RECURSIVE UpdateMovingVoxelsKnockback(_, _, _, _, _)
UpdateMovingVoxelsKnockback(st, i, dt, lucky, draw) ==
    IF i < 1 THEN st
    ELSE UpdateMovingVoxelsKnockback(
             RemoveFinished(UpdateKnockback(st, i, dt, lucky, draw), st.mv[i].id, i),
             i - 1, dt, lucky, draw)

\* VoxelServer.updatePhysics(dt) with update of src/game
UpdatePhysicsKnockback(dt, lucky, draw) ==
    AfterMovingVoxels(
        UpdateMovingVoxelsKnockback(
            TickStart([pid \in DOMAIN players |-> PlayerUpdatePhysics(players[pid], dt, heights)], dt),
            Len(movingVoxels), dt, lucky, draw))

\* the shots of a client at the players: straight down at 80 cells/s from a
\* cell and a half above the middle of the own body, the same at 8 cells/s,
\* and straight down at the terrain beside the players
KnockChoices(p) ==
    { [name |-> "down", pos |-> VAdd(p.centerPos, <<0, SCALE + HALF, 0>>), dir |-> <<0, -SCALE, 0>>],
      [name |-> "slow", pos |-> VAdd(p.centerPos, <<0, SCALE + HALF, 0>>), dir |-> <<0, -2, 0>>],
      [name |-> "miss", pos |-> <<HALF, FlatTop + 3 * SCALE + HALF, HALF>>, dir |-> <<0, -SCALE, 0>>] }

\* the message {type: 'input', data: {type: 'shoot', cameraPos, cameraDir}}
ShootKnockback(ws) ==
    /\ budget.shots < MaxShots
    /\ ws \in DOMAIN clients
    /\ \E shot \in KnockChoices(players[clients[ws]]) :
          Message(ws, [type |-> "shoot", cameraPos |-> shot.pos, cameraDir |-> shot.dir])

\* a tick of the loop at its rate; the draws of createDestruction succeed
\* for at most MaxDislodged cells, the draws of a knockback are one of
\* KnockDraws
KnockbackTick ==
    /\ budget.ticks < MaxKnockTicks
    /\ budget' = [budget EXCEPT !.ticks = @ + 1]
    /\ \E draw \in KnockDraws :
         \E all \in {UpdatePhysicsKnockback(NominalDt, Cells, draw)} :
          \E lucky \in SubsetsUpTo(DrawnCells(all), MaxDislodged) :
           \E r \in {IF lucky = DrawnCells(all) THEN all ELSE UpdatePhysicsKnockback(NominalDt, lucky, draw)} :
            /\ world' = r.world
            /\ heights' = r.heights
            /\ terrainNeedsRebuild' = r.dirty
            /\ players' = r.players
            /\ movingVoxels' = r.mv
            /\ nextVoxelId' = r.nextVoxelId
            /\ removedCells' = r.removed
            /\ log' = r.log
            /\ UNCHANGED <<clients, nextPlayerId>>

NextKnockback ==
    \/ Connect
    \/ \E ws \in Sockets : Disconnect(ws)
    \/ \E ws \in Sockets : ShootKnockback(ws)
    \/ KnockbackTick

SpecKnockback == Init /\ [][NextKnockback]_vars

-----------------------------------------------------------------------------
(* The grid on its own: getWorld and setWorld called with any coordinates  *)

\* the coordinates probed on each axis: both sides of both ends of the range
ProbeCoords == {-1, 0, WORLD_SIZE - 1, WORLD_SIZE}

\* a call of VoxelWorld.getWorld(x, y, z)
GridGet ==
    /\ budget.gridOps < MaxGridOps
    /\ \E x \in ProbeCoords, y \in ProbeCoords, z \in ProbeCoords :
          log' = [QuietLog("get") EXCEPT
                    !.op = [x |-> x, y |-> y, z |-> z, value |-> 0,
                            ret |-> GetWorld(world, x, y, z), before |-> world]]
    /\ budget' = [budget EXCEPT !.gridOps = @ + 1]
    /\ UNCHANGED <<world, heights, terrainNeedsRebuild, players, clients, movingVoxels,
                   nextPlayerId, nextVoxelId, removedCells>>

\* a call of VoxelWorld.setWorld(x, y, z, value)
GridSet ==
    /\ budget.gridOps < MaxGridOps
    /\ \E x \in ProbeCoords, y \in ProbeCoords, z \in ProbeCoords, value \in {0, 1} :
          LET r == SetWorld(world, terrainNeedsRebuild, x, y, z, value)
          IN  /\ world' = r.world
              /\ terrainNeedsRebuild' = r.dirty
              /\ log' = [QuietLog("set") EXCEPT
                           !.op = [x |-> x, y |-> y, z |-> z, value |-> value,
                                   ret |-> IF r.ret THEN 1 ELSE 0, before |-> world],
                           !.dirtyAtEnd = r.dirty]
    /\ budget' = [budget EXCEPT !.gridOps = @ + 1]
    /\ UNCHANGED <<heights, players, clients, movingVoxels, nextPlayerId, nextVoxelId, removedCells>>

NextGrid == GridGet \/ GridSet

SpecGrid == Init /\ [][NextGrid]_vars

-----------------------------------------------------------------------------
(* Properties                                                              *)

Ids(seq) == {seq[k].id : k \in 1 .. Len(seq)}

\* C1: a getWorld with a coordinate below 0 or at least WORLD_SIZE returns 0;
\* a setWorld there returns false and leaves every cell of the grid as it
\* was (the operators are total: no call has an error outcome)
C1_OutOfBoundsAccess ==
    (log.kind \in {"get", "set"} /\ ~InBounds(log.op.x, log.op.y, log.op.z)) =>
        /\ log.op.ret = 0
        /\ world = log.op.before
        /\ world \subseteq Cells

\* a setWorld(…, 1) beyond the upper end of X and below the lower end of Y
C1_Witness ==
    /\ log.kind = "set"
    /\ log.op.value = 1
    /\ log.op.x = WORLD_SIZE
    /\ log.op.y = -1

\* C2: in the initial state and at the end of every physics tick, whatever
\* settled or was destroyed, heights[x,z] is the number of solid cells of
\* column (x,z): the players of the next tick read a consistent cache
C2_HeightsConsistent ==
    \A c \in Columns : heights[c] = Cardinality({y \in Coords : <<c[1], y, c[2]>> \in world})

\* the end of a tick in which a body settled and the cache was rebuilt
C2_Witness ==
    /\ log.kind = "tick"
    /\ log.rebuilds = 1
    /\ \E r \in log.settles : r.written # {}

\* C3: a tick rebuilds the height cache at most once, and only if a cell
\* changed since the previous rebuild; the flag is clear when the tick ends
C3_RebuildOncePerTick ==
    log.kind = "tick" =>
        /\ log.rebuilds <= 1
        /\ log.rebuilds = 1 => log.rebuiltWhilePending
        /\ ~terrainNeedsRebuild
        /\ ~log.pending

\* the end of a tick whose destruction cleared several cells, rebuilt once
C3_Witness ==
    /\ log.kind = "tick"
    /\ log.changes >= 1
    /\ log.destroyed # {}
    /\ log.rebuilds = 1

\* the end of a tick that changed no cell and did not rebuild
C3_WitnessQuiet ==
    /\ log.kind = "tick"
    /\ log.changes = 0
    /\ log.rebuilds = 0
    /\ budget.ticks >= 2

\* C5: settleToGrid writes solid only into one in-bounds cell that was empty
\* when chosen, and erases nothing; when the target and every cell within
\* the shells of radius 1..4 are solid or out of bounds, the grid stays as it
\* was and the body is still in the moving set when the tick ends
C5_NoForcedPlacement ==
    \A r \in log.settles :
        /\ r.erased = {}
        /\ r.written \subseteq {r.found}
        /\ r.written # {} => (r.found \in Cells /\ ~r.wasSolid)
        /\ r.noneFree => (r.written = {} /\ r.id \in Ids(movingVoxels))

\* a settle attempt far above the grid, with no free cell within radius 4
C5_Witness ==
    \E r \in log.settles : r.noneFree /\ r.id \in Ids(movingVoxels)

\* C4 as stated: every body that starts a tick with near-zero velocity over
\* an empty in-bounds cell leaves the moving set in that tick as settled, the
\* cell it settled into is solid when the tick ends, and no body that left
\* the moving set is updated again
C4_SettlesWithinOneTick ==
    log.kind = "tick" =>
        /\ \A id \in log.placed :
              /\ <<id, "settled">> \in log.results
              /\ id \notin Ids(movingVoxels)
              /\ \E r \in log.settles : r.id = id /\ r.found \in world
        /\ log.updated \cap log.goneBefore = {}

\* the preconditions under which C4 holds: the step of gravity stays below
\* the settle threshold, and the body is the only one in the moving set
C4_Calm(id) ==
    /\ RDiv(GRAVITY * SCALE * log.dt, TPS) + SCALE < SETTLE_SPEED_THRESHOLD * SCALE
    /\ {v.id : v \in log.atStart} = {id}
    /\ <<id, "kill_projectile">> \notin log.results

\* C4, amended: a body that starts a tick with near-zero velocity (at most
\* 1 cell/s) over an empty in-bounds cell settles within that tick, provided
\* speed + GRAVITY*dt stays below SETTLE_SPEED_THRESHOLD, it is the only
\* moving body and no player cell destroys it; a body that left the moving
\* set is never updated again
C4_SettlesWhenCalm ==
    log.kind = "tick" =>
        /\ \A id \in log.placed :
              C4_Calm(id) =>
                  /\ <<id, "settled">> \in log.results
                  /\ id \notin Ids(movingVoxels)
                  /\ \E r \in log.settles : r.id = id /\ r.found \in world
        /\ log.updated \cap log.goneBefore = {}

\* a body at rest over a free cell settled in a calm tick, and a later tick
\* ran without it
C4_Witness ==
    /\ log.kind = "tick"
    /\ \E id \in log.placed : C4_Calm(id) /\ <<id, "settled">> \in log.results

\* C6 as stated: a body whose step is shorter than 2*size and whose Euler end
\* position is not valid holds a valid position when the tick ends
C6_NoTunnelling ==
    log.kind = "tick" =>
        \A s \in log.sweeps :
            (s.blocked /\ s.slow) =>
                \A k \in 1 .. Len(movingVoxels) :
                    movingVoxels[k].id = s.id => IsPositionValid(world, movingVoxels[k].pos)

\* the scans of the last tick in which the projectile was still under the
\* thrower's immunity as the claim states it: thrower present, frames 1..10,
\* within 20 units, the latch not yet set
ImmuneScans ==
    {s \in log.scans :
        /\ s.thrower \in DOMAIN players
        /\ s.frames \in 1 .. 10
        /\ s.near
        /\ ~s.latchedBefore}

\* C7 as stated: in a tick in which framesSinceLaunch is in 1..10 and the
\* projectile is within 20 units of its thrower (and has not left the
\* thrower's hitbox before), no cell of the thrower is hit by the projectile
C7_ThrowerImmunity ==
    log.kind = "tick" =>
        \A s \in ImmuneScans : \A h \in s.hit : h.cell[1] # s.thrower

\* the ids of the cells in the players' bodies
BodyCells(pl) == UNION {Ids(pl[pid].bodyVoxels) : pid \in DOMAIN pl}

\* the projectiles of the moving set whose latch is set
Latched(mv) == {mv[k].id : k \in {j \in 1 .. Len(mv) : mv[j].isProjectile /\ mv[j].hasLeftThrowerHitbox}}

\* C8: a projectile whose hasLeftThrowerHitbox is true keeps it true as long
\* as it is in the moving set, and in every tick that starts with the latch
\* set and the thrower present the projectile is tested against the
\* thrower's cells, also within 20 units of the thrower
C8_ImmunityLatched ==
    [][/\ Latched(movingVoxels) \cap Ids(movingVoxels') \subseteq Latched(movingVoxels')
       /\ log'.kind = "tick" =>
              \A v \in log'.atStart :
                  (v.isProjectile /\ v.hasLeftThrowerHitbox /\ v.throwerId \in DOMAIN players) =>
                      \E s \in log'.scans :
                          /\ s.proj = v.id
                          /\ s.latchedBefore /\ s.latchedAfter
                          /\ s.thrower \in s.tested]_vars

\* a latched projectile was tested against its thrower within 20 units of
\* the thrower and before frame 10
C8_Witness ==
    /\ log.kind = "tick"
    /\ \E s \in log.scans :
          s.latchedBefore /\ s.near /\ s.frames < 10 /\ s.thrower \in s.tested

\* C9: in a tick where the travel segment of a projectile intersects an
\* eligible player cell, exactly one cell, one with the smallest t, leaves
\* its player's body, no other cell leaves a body in that tick, and the
\* projectile leaves the moving set as killed without a write to the grid
C9_MutualDestruction ==
    [][log'.kind = "tick" =>
          /\ \A s \in log'.scans :
                s.candidates # {} =>
                    /\ Cardinality(s.hit) = 1
                    /\ \A h \in s.hit :
                          /\ h \in s.candidates
                          /\ \A c \in s.candidates : h.t <= c.t
                          /\ h.cell \in BodyCells(players) \ BodyCells(players')
                    /\ <<s.proj, "kill_projectile">> \in log'.results
                    /\ s.proj \notin Ids(movingVoxels')
                    /\ \A r \in log'.settles : r.id # s.proj
          /\ BodyCells(players) \ BodyCells(players')
                = {h.cell : h \in UNION {s.hit : s \in log'.scans}}
          /\ Cardinality(BodyCells(players) \ BodyCells(players'))
                = Cardinality({s \in log'.scans : s.candidates # {}})]_vars

\* a projectile's segment met more than one eligible cell at different t and
\* the projectile was killed
C9_Witness ==
    /\ log.kind = "tick"
    /\ \E s \in log.scans :
          /\ \E c, d \in s.candidates : c.t < d.t
          /\ <<s.proj, "kill_projectile">> \in log.results

\* C10: no step makes the body of a player longer, and a cell that has been
\* removed from a body is in no body afterwards
C10_BodyOnlyShrinks ==
    [][/\ \A pid \in DOMAIN players \cap DOMAIN players' :
             Len(players'[pid].bodyVoxels) <= Len(players[pid].bodyVoxels)
       /\ BodyCells(players') \cap (removedCells \cup removedCells') = {}
       /\ BodyCells(players) \ BodyCells(players') \subseteq
             removedCells' \cup BodyCells([pid \in DOMAIN players \ DOMAIN players' |-> players[pid]])
       /\ removedCells \subseteq removedCells']_vars

\* a player lost a cell and was updated in a later tick
C10_Witness ==
    /\ log.kind = "tick"
    /\ removedCells # {}
    /\ log.results = {}
    /\ \E pid \in DOMAIN players : Len(players[pid].bodyVoxels) < Len(BodyPatterns)

\* C12: a moving body whose hasCollided is true keeps it true as long as it is
\* in the moving set; a body triggers terrain destruction only while its
\* hasCollided is false, the destruction sets it, and no body that has ever
\* triggered a destruction triggers another one, whatever it collides with
C12_CollidedLatch ==
    [][/\ \A k \in 1 .. Len(movingVoxels) : \A j \in 1 .. Len(movingVoxels') :
             (movingVoxels[k].id = movingVoxels'[j].id /\ movingVoxels[k].hasCollided)
                 => movingVoxels'[j].hasCollided
       /\ log'.kind = "tick" =>
             /\ \A d \in log'.destroyed :
                   /\ d.by \notin log.triggered
                   /\ \E v \in log'.atStart : v.id = d.by /\ ~v.hasCollided
                   /\ \A j \in 1 .. Len(movingVoxels') :
                         movingVoxels'[j].id = d.by => movingVoxels'[j].hasCollided
                   /\ Cardinality({e \in log'.destroyed : e.by = d.by}) = 1
             /\ \A c \in log'.collisions :
                   c.hadCollided => \A d \in log'.destroyed : d.by # c.id
       /\ log.triggered \subseteq log'.triggered]_vars

\* a projectile that had triggered a destruction resolved another terrain
\* collision with a resulting speed above 15
C12_Witness ==
    /\ log.kind = "tick"
    /\ \E c \in log.collisions :
          c.hadCollided /\ c.id \in log.triggered /\ FastEnough(c.velAfter)

\* C13 as stated: whenever a moving body of either kind whose hasCollided is
\* false resolves a terrain collision with a resulting speed above 15, a
\* terrain destruction is triggered at the collision block
C13_DestructionWheneverFast ==
    log.kind = "tick" =>
        \A c \in log.collisions :
            (FastEnough(c.velAfter) /\ ~c.hadCollided) =>
                \E d \in log.destroyed : d.by = c.id /\ d.impact = c.block

\* the terrain collisions of the last tick in which a projectile that had
\* not triggered a destruction hit the flat terrain head-on: it moved along
\* Y only and struck the top face of a block
HeadOnFlat ==
    {c \in log.collisions :
        /\ c.isProjectile /\ ~c.hadCollided
        /\ c.velBefore[1] = 0 /\ c.velBefore[3] = 0 /\ c.velBefore[2] < 0
        /\ c.axis = 2
        /\ c.terrain = GenerateWorld([col \in Columns |-> 0])}

\* the destructions of the last tick triggered at the block of collision c
DestructionsAt(c) == {d \in log.destroyed : d.by = c.id /\ d.impact = c.block}

\* C14 as stated: a projectile that hits the flat terrain head-on at speed 30
\* (between 29.5 and 30.5 here) triggers a destruction on impact that spawns
\* at least one Debris body with nonzero velocity
C14_DestructionAtSpeed30 ==
    log.kind = "tick" =>
        \A c \in HeadOnFlat :
            (2 * (-c.velBefore[2]) >= 59 * SCALE /\ 2 * (-c.velBefore[2]) <= 61 * SCALE) =>
                \E d \in DestructionsAt(c) :
                    \E v \in d.debris : ~v.isProjectile /\ v.vel # <<0, 0, 0>>

\* C14, amended: a projectile that hits the flat terrain head-on triggers a
\* destruction on impact exactly when its speed after the bounce, 0.4 times
\* the impact speed, is above 15 (an impact speed above 37.5), so an impact
\* at speed 30 triggers none; a destruction spawns one body for each cell
\* whose random draw succeeded (possibly none), each of them Debris with
\* nonzero velocity
C14_DestructionAboveBounce15 ==
    log.kind = "tick" =>
        /\ \A c \in HeadOnFlat :
              /\ (DestructionsAt(c) # {}) <=> (4 * (-c.velBefore[2]) > 10 * 15 * SCALE)
              /\ \A d \in DestructionsAt(c) :
                    Cardinality(d.debris) = Cardinality(d.cells)
        /\ \A d \in log.destroyed : \A v \in d.debris :
              ~v.isProjectile /\ v.vel # <<0, 0, 0>>

\* a head-on impact at 80 on the flat terrain triggered a destruction that
\* spawned debris, and one at 29.6 was resolved without a destruction
C14_Witness ==
    /\ log.kind = "tick"
    /\ \E c \in HeadOnFlat : \E d \in DestructionsAt(c) : d.debris # {}

\* a head-on impact at speed 29.6 on the flat terrain without a destruction
C14_WitnessSlow ==
    /\ log.kind = "tick"
    /\ \E c \in HeadOnFlat :
          /\ 2 * (-c.velBefore[2]) >= 59 * SCALE /\ 2 * (-c.velBefore[2]) <= 61 * SCALE
          /\ DestructionsAt(c) = {}

\* C15 as stated: after a projectile's terrain impact has triggered a
\* destruction, the collision block the destruction was invoked at is empty
C15_ImpactCellEmpty ==
    log.kind = "tick" =>
        \A d \in log.destroyed : d.wasProjectile => d.impact \notin d.after

\* C15, amended: the block a destruction is invoked at is solid before the
\* destruction and still solid after it: createDestruction dislodges only
\* cells at a distance above 0.5 from the impact block, never that block
C15_ImpactCellStays ==
    log.kind = "tick" =>
        \A d \in log.destroyed :
            /\ d.impact \in d.before
            /\ d.impact \in d.after
            /\ d.impact \notin d.cells

\* a destruction dislodged two neighbours of its impact block, which is
\* still solid when the tick ends
C15_Witness ==
    /\ log.kind = "tick"
    /\ \E d \in log.destroyed :
          /\ d.wasProjectile
          /\ Cardinality(d.before \ d.after) = 2
          /\ d.impact \in world

\* the solid cells of grid w within the radius 3 of block b
SolidInSphere(w, b) ==
    {c \in w : NormSq(VSub(c, b)) <= 9}

\* C16: one destruction removes only cells that were solid and lie at a
\* distance d with 0.5 < d <= 3 from the impact block, and for every removed
\* cell it adds exactly one new Debris body, at the centre of that cell, to
\* the moving set; the number of debris is the number of cells turned empty
\* and at most the number of solid cells in the sphere of radius 3
C16_DebrisPerRemovedCell ==
    [][log'.kind = "tick" =>
          \A d \in log'.destroyed :
              /\ d.after \subseteq d.before
              /\ \A c \in d.before \ d.after :
                    /\ NormSq(VSub(c, d.impact)) >= 1
                    /\ NormSq(VSub(c, d.impact)) <= 9
                    /\ Cardinality({v \in d.debris : v.pos = BlockCenter(c)}) = 1
              /\ \A v \in d.debris :
                    /\ ~v.isProjectile
                    /\ v.id >= nextVoxelId /\ v.id < nextVoxelId'
                    /\ v.id \notin Ids(movingVoxels)
                    /\ v.id \in Ids(movingVoxels') \cup log'.gone
                    /\ \E c \in d.before \ d.after : v.pos = BlockCenter(c)
              /\ Cardinality({v.id : v \in d.debris}) = Cardinality(d.before \ d.after)
              /\ Cardinality(d.debris) = Cardinality(d.before \ d.after)
              /\ Cardinality(d.debris) <= Cardinality(SolidInSphere(d.before, d.impact))]_vars

\* a destruction that turned two cells empty and put two debris bodies into
\* the moving set
C16_Witness ==
    /\ log.kind = "tick"
    /\ \E d \in log.destroyed :
          /\ Cardinality(d.debris) = 2
          /\ {v.id : v \in d.debris} \subseteq Ids(movingVoxels)

\* the players a tick started from that had cells left
UpdatedPlayers == {pid \in DOMAIN log.before : Len(log.before[pid].bodyVoxels) > 0}

\* the player pid of the tick's start when its horizontal movement step begins
AtHorizontalStep(pid) == UpdateVerticalPhysics(FollowCenter(log.before[pid]), log.dt, heights)

\* the column <<tx, tz>> the movement input of player f leads to in a step
\* of dt, <<-1, -1>> without input
DestinationColumn(f, dt) ==
    LET m == MovementVector(f)
        len == ISqrt(m[1] * m[1] + m[2] * m[2])
        step == RDiv(MOVE_SPEED * SCALE * dt, TPS)
    IN  IF len = 0 THEN <<-1, -1>>
        ELSE <<Floor(f.centerPos[1] + RDiv(m[1] * step, len)),
               Floor(f.centerPos[3] + RDiv(m[2] * step, len))>>

\* the destination column of f is outside the world
DestinationOutside(f, dt) == DestinationColumn(f, dt) \notin Columns

\* the cached height of the destination column of f exceeds that of its
\* current column by more than STEP_HEIGHT
DestinationTooHigh(f, dt) ==
    /\ DestinationColumn(f, dt) \in Columns
    /\ <<Floor(f.centerPos[1]), Floor(f.centerPos[3])>> \in Columns
    /\ heights[DestinationColumn(f, dt)]
         - heights[<<Floor(f.centerPos[1]), Floor(f.centerPos[3])>>] > STEP_HEIGHT

\* the X and Z of the centre and of every cell of players a and b are the same
SameXZ(a, b) ==
    /\ a.centerPos[1] = b.centerPos[1]
    /\ a.centerPos[3] = b.centerPos[3]
    /\ Len(a.bodyVoxels) = Len(b.bodyVoxels)
    /\ \A k \in 1 .. Len(a.bodyVoxels) :
          /\ a.bodyVoxels[k].pos[1] = b.bodyVoxels[k].pos[1]
          /\ a.bodyVoxels[k].pos[3] = b.bodyVoxels[k].pos[3]

\* C17: in a tick with movement input, if the cached height of the
\* destination column exceeds that of the current column by more than
\* STEP_HEIGHT, or the destination column is outside the world, the
\* horizontal movement step leaves the X and Z of the centre and of every
\* cell as they were, and the tick ends with the player only clamped to the
\* boundaries
C17_StepUpRejected ==
    log.kind = "tick" =>
        \A pid \in UpdatedPlayers :
            LET f == AtHorizontalStep(pid)
            IN  (MovementVector(f) # <<0, 0>>
                   /\ (DestinationOutside(f, log.dt) \/ DestinationTooHigh(f, log.dt)))
                  => /\ SameXZ(UpdateHorizontalMovement(f, log.dt, heights), f)
                     /\ pid \in DOMAIN players
                     /\ players[pid] = EnforceBoundaries(f)

\* a tick in which a player walked against a wall of more than STEP_HEIGHT
C17_Witness ==
    /\ log.kind = "tick"
    /\ \E pid \in UpdatedPlayers :
          /\ "w" \in log.before[pid].keys
          /\ DestinationTooHigh(AtHorizontalStep(pid), log.dt)
          /\ SameXZ(players[pid], AtHorizontalStep(pid))

\* a tick in which a player walked towards the end of the world
C17_WitnessOutside ==
    /\ log.kind = "tick"
    /\ \E pid \in UpdatedPlayers :
          /\ "w" \in log.before[pid].keys
          /\ DestinationOutside(AtHorizontalStep(pid), log.dt)

\* the square of 2.0 cells, with the rounding of one unit per axis
CapSq == (2 * SCALE + 1) * (2 * SCALE + 1)

\* C18 as stated: in a tick that a player starts with cells missing, the
\* reported centre moves by at most 2.0
C18_CenterMovesAtMostTwo ==
    log.kind = "tick" =>
        \A pid \in UpdatedPlayers :
            Len(log.before[pid].bodyVoxels) < Len(BodyPatterns)
              => NormSq(VSub(players[pid].centerPos, log.before[pid].centerPos)) <= CapSq

\* the resting height of player p on the height cache
RestY(p) == GroundY(p, heights) + PLAYER_HALF_HEIGHT * SCALE

\* C18, amended: the shift of the centre towards the mean of the remaining
\* cells is at most 2.0 per tick and is the whole difference when that is
\* within 2.0; the vertical physics, the horizontal movement and the clamp
\* to the boundaries of the same tick come on top of it; the reported centre
\* of a player without movement input that stands at rest, over ground of
\* the same height after the shift, moves by at most 2.0 in the tick
C18_CenterShiftCapped ==
    log.kind = "tick" =>
        \A pid \in UpdatedPlayers :
            LET b == log.before[pid]
                f == FollowCenter(b)
            IN  /\ NormSq(VSub(f.centerPos, b.centerPos)) <= CapSq
                /\ NormSq(VSub(GetCenterPosition(b), b.centerPos)) <= (2 * SCALE) * (2 * SCALE)
                      => f.centerPos = GetCenterPosition(b)
                /\ players[pid] =
                      EnforceBoundaries(
                          UpdateHorizontalMovement(
                              UpdateVerticalPhysics(f, log.dt, heights), log.dt, heights))
                /\ (b.keys = {} /\ b.grounded /\ b.centerPos[2] = RestY(b) /\ RestY(f) = RestY(b))
                      => NormSq(VSub(players[pid].centerPos, b.centerPos)) <= CapSq

\* a tick that a player started with its remaining cells more than 2.0 away
\* from its centre
C18_Witness ==
    /\ log.kind = "tick"
    /\ \E pid \in UpdatedPlayers :
          /\ NormSq(VSub(GetCenterPosition(log.before[pid]), log.before[pid].centerPos))
                > (2 * SCALE) * (2 * SCALE)
          /\ players[pid].centerPos # GetCenterPosition(log.before[pid])

\* C19: a keydown of the space key makes the player jump only when Grounded:
\* verticalVelocity becomes JUMP_SPEED and the player Airborne, positions
\* as they were; the keydown of an Airborne player changes nothing of the
\* player; and a player becomes Grounded again only in a tick
C19_JumpOnlyGrounded ==
    [][/\ (log'.kind = "message" /\ log'.msg = "keydown") =>
             \A ws \in DOMAIN clients :
                 LET p == players[clients[ws]]
                     q == players'[clients[ws]]
                 IN  IF p.grounded
                     THEN /\ q.velY = JUMP_SPEED * SCALE
                          /\ ~q.grounded
                          /\ q = [p EXCEPT !.velY = q.velY, !.grounded = FALSE]
                     ELSE q = p
       /\ \A pid \in DOMAIN players \cap DOMAIN players' :
             (~players[pid].grounded /\ players'[pid].grounded) => log'.kind = "tick"]_vars

\* a keydown that reached a player still rising from its jump and was ignored
C19_Witness ==
    /\ log.kind = "message"
    /\ log.msg = "keydown"
    /\ budget.inputs = 2
    /\ \E pid \in DOMAIN players :
          /\ ~players[pid].grounded
          /\ players[pid].velY > 0
          /\ players[pid].velY < JUMP_SPEED * SCALE

\* a keydown that made a player jump
C19_WitnessJump ==
    /\ log.kind = "message"
    /\ log.msg = "keydown"
    /\ \E pid \in DOMAIN players :
          ~players[pid].grounded /\ players[pid].velY = JUMP_SPEED * SCALE

\* the velocity a tick of dt adds downwards
GravityStep(dt) == RDiv(GRAVITY * SCALE * dt, TPS)

\* C20 as stated: each bounce on the world floor replaces the downward
\* vertical velocity v by -0.3 v, and the vertical velocity a body leaves the
\* floor with is lower than the one it left it with at its previous bounce
C20_PeaksDecrease ==
    log.kind = "tick" =>
        \A b \in log.bounces :
            /\ b.velOut[2] = RDiv(-(b.velIn[2] * 3), 10)
            /\ b.prev >= 0 => b.velOut[2] < b.prev

\* C20, amended: each bounce on the world floor replaces the downward
\* vertical velocity v by -0.3 v and multiplies the lateral velocity by 0.8;
\* a body that has been the only one in flight since its previous bounce
\* leaves the floor slower than it did then, whenever it left it then with
\* more than GRAVITY * dt; and a body alone in flight whose speed after the
\* bounce is below SETTLE_SPEED_THRESHOLD settles in that tick
C20_FloorBounce ==
    log.kind = "tick" =>
        \A b \in log.bounces :
            /\ b.velIn[2] < 0
            /\ b.velOut = <<RDiv(b.velIn[1] * 8, 10), RDiv(-(b.velIn[2] * 3), 10), RDiv(b.velIn[3] * 8, 10)>>
            /\ b.velOut[2] >= 0
            /\ b.velOut[2] <= -b.velIn[2]
            /\ (b.prev > GravityStep(log.dt)) => b.velOut[2] < b.prev
            /\ (b.alone /\ NormSq(b.velOut) < (SETTLE_SPEED_THRESHOLD * SCALE) * (SETTLE_SPEED_THRESHOLD * SCALE))
                  => /\ <<b.id, "settled">> \in log.results
                     /\ b.id \notin Ids(movingVoxels)

\* a body bounced on the world floor for the second time, slower than the
\* first time
C20_Witness ==
    /\ log.kind = "tick"
    /\ \E b \in log.bounces :
          /\ b.prev > GravityStep(log.dt)
          /\ b.velOut[2] > 0
          /\ b.velOut[2] < b.prev

\* a body bounced on the world floor and left it faster than the time before
C20_WitnessHigher ==
    /\ log.kind = "tick"
    /\ \E b \in log.bounces : b.prev >= 0 /\ b.velOut[2] > b.prev + 2

\* the body cells of the players as the objects they are in the moving set
OwnedCells(pl) == {EjectedId(id) : id \in BodyCells(pl)}

\* the cells knocked off a player that are in the moving set
EjectedInFlight(mv) == {k \in 1 .. Len(mv) : mv[k].id < 0}

\* C11: between ticks no voxel is both a body cell of a player and in the
\* moving set, no voxel is a body cell of two players or twice of one, and
\* every cell knocked off a player is in the moving set once at most, as a
\* body that is neither a player cell nor a projectile
C11_ExclusiveOwnership ==
    /\ OwnedCells(players) \cap Ids(movingVoxels) = {}
    /\ \A p, q \in DOMAIN players :
          p # q => Ids(players[p].bodyVoxels) \cap Ids(players[q].bodyVoxels) = {}
    /\ \A p \in DOMAIN players :
          Cardinality(Ids(players[p].bodyVoxels)) = Len(players[p].bodyVoxels)
    /\ \A j, k \in EjectedInFlight(movingVoxels) :
          /\ movingVoxels[j].id = movingVoxels[k].id => j = k
          /\ ~movingVoxels[k].isPlayerVoxel
          /\ ~movingVoxels[k].isProjectile
          /\ movingVoxels[k].id \in {EjectedId(id) : id \in removedCells}

\* a cell knocked off a player is in the moving set while the body it came
\* from goes on without it
C11_Witness ==
    /\ log.kind = "tick"
    /\ \E k \in EjectedInFlight(movingVoxels) :
          \E p \in DOMAIN players :
              /\ Len(players[p].bodyVoxels) = Len(BodyPatterns) - 1
              /\ movingVoxels[k].id \in {EjectedId(<<p, c>>) : c \in 1 .. Len(BodyPatterns)}
              /\ movingVoxels[k].vel # <<0, 0, 0>>

-----------------------------------------------------------------------------
(* The vertical state of a player                                          *)

\* the player pid of the tick's start when its vertical physics step begins
AtVerticalStep(pid) == FollowCenter(log.before[pid])

\* the Y of the centre of the Airborne player f after the fall of a step dt
FallenY(f, dt) == f.centerPos[2] + RDiv((f.velY - GravityStep(dt)) * dt, TPS)

\* C21: after the vertical physics step of a tick a Grounded player has
\* verticalVelocity 0 and its centre at floor(WORLD_SIZE / 4) + the cached
\* height of its column + PLAYER_HALF_HEIGHT; a Grounded player becomes
\* Airborne in that step only if its centre is more than 1 above that level,
\* an Airborne player becomes Grounded only if its centre has fallen to that
\* level or below; and the rest of the tick leaves the vertical state alone
C21_VerticalStateMachine ==
    log.kind = "tick" =>
        \A pid \in UpdatedPlayers :
            LET f == AtVerticalStep(pid)
                v == AtHorizontalStep(pid)
            IN  /\ v.grounded => (v.velY = 0 /\ v.centerPos[2] = RestY(v))
                /\ (f.grounded /\ ~v.grounded) => f.centerPos[2] > RestY(f) + SCALE
                /\ (~f.grounded /\ v.grounded) => FallenY(f, log.dt) <= RestY(f)
                /\ pid \in DOMAIN players
                /\ players[pid].grounded = v.grounded
                /\ players[pid].velY = v.velY
                /\ players[pid].centerPos[2] = v.centerPos[2]

\* a tick in which a falling player landed
C21_Witness ==
    /\ log.kind = "tick"
    /\ \E pid \in UpdatedPlayers :
          /\ ~log.before[pid].grounded
          /\ log.before[pid].velY < 0
          /\ players[pid].grounded
          /\ players[pid].velY = 0

\* a tick in which a player at rest found itself more than 1 above the
\* ground and began to fall
C21_WitnessLetGo ==
    /\ log.kind = "tick"
    /\ \E pid \in UpdatedPlayers :
          /\ log.before[pid].grounded
          /\ ~players[pid].grounded

\* a tick in which a player at rest was up to 1 above the ground and was
\* put back on it
C21_WitnessSnap ==
    /\ log.kind = "tick"
    /\ \E pid \in UpdatedPlayers :
          /\ log.before[pid].grounded
          /\ AtVerticalStep(pid).centerPos[2] > RestY(AtVerticalStep(pid))
          /\ players[pid].grounded

-----------------------------------------------------------------------------
(* Two bodies against one another                                          *)

MaxPairOps == 2

\* where the second body is, seen from the first: apart, touching, one unit
\* inside the collision distance, deep inside, and at the same place
PairOffsets ==
    { <<0, 0, 0>>, <<1, 0, 0>>, <<4, 0, 0>>, <<10, 0, 0>>, <<17, 0, 0>>, <<18, 0, 0>>,
      <<19, 0, 0>>, <<30, 0, 0>>, <<0, 12, 0>>, <<0, -17, 0>>, <<0, 0, 9>>, <<0, 0, -16>>,
      <<6, 8, 0>>, <<0, -12, 9>>, <<12, 12, 6>>, <<-10, -10, -5>>, <<8, -8, 4>>,
      <<12, 12, 7>>, <<-3, 4, 12>>, <<2, 2, 1>> }

\* the velocities of the first body: at rest, flying along X, rising
PairVelocities == { <<0, 0, 0>>, <<3 * SCALE, 0, 0>>, <<-2 * SCALE, 4 * SCALE, SCALE>> }

\* a server with two debris bodies in flight in the middle of the world
InitPairs ==
    /\ world = GenerateWorld([c \in Columns |-> 0])
    /\ heights = CountColumns(world)
    /\ terrainNeedsRebuild = FALSE
    /\ players = <<>>
    /\ clients = <<>>
    /\ \E o \in PairOffsets, va \in PairVelocities :
          LET pa == <<2 * SCALE, 3 * SCALE, 2 * SCALE>>
          IN  movingVoxels =
                 << [NewMovingVoxel(1, pa, <<0, 0, 0>>, FALSE, 0) EXCEPT !.vel = va],
                    NewMovingVoxel(2, VSub(pa, o), <<0, 0, 0>>, FALSE, 0) >>
    /\ nextPlayerId = 1
    /\ nextVoxelId = 3
    /\ budget = [ticks |-> 0, longTicks |-> 0, shots |-> 0, inputs |-> 0, sockets |-> 0, gridOps |-> 0]
    /\ log = EmptyLog
    /\ removedCells = {}

\* handleVoxelCollisions(allVoxels) of the body at index i
ResolvePairs(i) ==
    /\ budget.ticks < MaxPairOps
    /\ i \in 1 .. Len(movingVoxels)
    /\ movingVoxels' = HandleVoxelCollisions(movingVoxels, i, 1)
    /\ log' = [QuietLog("resolve") EXCEPT
                 !.op = [i |-> i, before |-> movingVoxels,
                         collided |-> CheckVoxelToVoxelCollision(movingVoxels[i], movingVoxels[3 - i])]]
    /\ budget' = [budget EXCEPT !.ticks = @ + 1]
    /\ UNCHANGED <<world, heights, terrainNeedsRebuild, players, clients,
                   nextPlayerId, nextVoxelId, removedCells>>

NextPairs == \E i \in 1 .. 2 : ResolvePairs(i)

SpecPairs == InitPairs /\ [][NextPairs]_vars

\* the square of the distance between the centres of the two bodies of mv
PairDistSq(mv) == NormSq(VSub(mv[1].pos, mv[2].pos))

\* the push of 0.51 * (size + size - d) along axis k of the pair mv, of the
\* body at index i
HalfPenetrationPush(mv, i, k) ==
    LET d == VSub(mv[i].pos, mv[3 - i].pos)
    IN  RDiv(d[k] * (2 * VOXEL_SIZE - Norm(d)) * 51, Norm(d) * 100)

\* C22 as stated: two bodies collide exactly when their distance is below
\* size + size, and the resolution moves each along the normal by
\* 0.51 * (size + size - d), which leaves them just above size + size apart
C22_HalfPenetrationEach ==
    log.kind = "resolve" =>
        LET mv == log.op.before
            i == log.op.i
        IN  /\ log.op.collided <=> PairDistSq(mv) < (2 * VOXEL_SIZE) * (2 * VOXEL_SIZE)
            /\ (log.op.collided /\ Norm(VSub(mv[1].pos, mv[2].pos)) >= 1)
                  => /\ \A k \in 1 .. 3 :
                          /\ Abs(movingVoxels[i].pos[k] - mv[i].pos[k] - HalfPenetrationPush(mv, i, k)) <= 1
                          /\ Abs(mv[3 - i].pos[k] - movingVoxels[3 - i].pos[k] - HalfPenetrationPush(mv, i, k)) <= 1
                     /\ PairDistSq(movingVoxels) >= (2 * VOXEL_SIZE) * (2 * VOXEL_SIZE)
                     /\ PairDistSq(movingVoxels) <= (2 * VOXEL_SIZE + 3) * (2 * VOXEL_SIZE + 3)

\* what the resolution does: the bodies end about twice size + size apart
C22_PushedToTwiceTheSum ==
    /\ log.kind = "resolve"
    /\ log.op.collided
    /\ PairDistSq(log.op.before) >= 16 * 16
    /\ PairDistSq(movingVoxels) >= (4 * VOXEL_SIZE) * (4 * VOXEL_SIZE)

-----------------------------------------------------------------------------
(* The bounce off the terrain                                              *)

\* restitution and friction of handleCollision, in tenths
Restitution(isProjectile) == IF isProjectile THEN 4 ELSE 2
Friction(isProjectile) == IF isProjectile THEN 8 ELSE 9

\* C24 as stated: on a terrain collision along axis a with |vel[a]| > 2,
\* vel[a] is multiplied by -restitution and each of the other two components
\* by friction; otherwise vel[a] becomes 0 and the others stay
C24_FrictionOnBothOthers ==
    log.kind = "tick" =>
        \A c \in log.collisions :
            IF Abs(c.velBefore[c.axis]) > 2 * SCALE
            THEN \A i \in 1 .. 3 :
                    c.velAfter[i] = IF i = c.axis
                                    THEN RDiv(-(c.velBefore[i] * Restitution(c.isProjectile)), 10)
                                    ELSE RDiv(c.velBefore[i] * Friction(c.isProjectile), 10)
            ELSE \A i \in 1 .. 3 : c.velAfter[i] = IF i = c.axis THEN 0 ELSE c.velBefore[i]

\* C24, amended: on a terrain collision along axis a with |vel[a]| > 2,
\* vel[a] is multiplied by -restitution (0.4 projectile, 0.2 debris), the
\* horizontal components X and Z other than a are multiplied by friction
\* (0.8 projectile, 0.9 debris) and the vertical component Y, when it is not
\* a, is left as it is; otherwise vel[a] becomes 0 and the others stay
C24_FrictionOnHorizontalOthers ==
    log.kind = "tick" =>
        \A c \in log.collisions :
            /\ c.axis \in 1 .. 3
            /\ IF Abs(c.velBefore[c.axis]) > 2 * SCALE
               THEN /\ c.velAfter[c.axis] = RDiv(-(c.velBefore[c.axis] * Restitution(c.isProjectile)), 10)
                    /\ \A i \in {1, 3} \ {c.axis} :
                          c.velAfter[i] = RDiv(c.velBefore[i] * Friction(c.isProjectile), 10)
                    /\ c.axis # 2 => c.velAfter[2] = c.velBefore[2]
               ELSE \A i \in 1 .. 3 : c.velAfter[i] = IF i = c.axis THEN 0 ELSE c.velBefore[i]

\* a tick in which a body hit the side of a block while it was falling or
\* rising, and kept its vertical velocity
C24_Witness ==
    /\ log.kind = "tick"
    /\ \E c \in log.collisions :
          /\ c.axis = 1
          /\ Abs(c.velBefore[1]) > 2 * SCALE
          /\ c.velBefore[2] # 0
          /\ RDiv(c.velBefore[2] * Friction(c.isProjectile), 10) # c.velBefore[2]
          /\ c.velAfter[2] = c.velBefore[2]

\* a tick in which a body hit the top of a block and lost speed along X or Z
C24_WitnessTop ==
    /\ log.kind = "tick"
    /\ \E c \in log.collisions :
          /\ c.axis = 2
          /\ Abs(c.velBefore[2]) > 2 * SCALE
          /\ \E i \in {1, 3} : c.velBefore[i] # 0 /\ c.velAfter[i] # c.velBefore[i]

\* a tick in which a body came to a stop along the axis of its collision
C24_WitnessStop ==
    /\ log.kind = "tick"
    /\ \E c \in log.collisions :
          /\ Abs(c.velBefore[c.axis]) <= 2 * SCALE
          /\ c.velBefore[c.axis] # 0
          /\ c.velAfter[c.axis] = 0

-----------------------------------------------------------------------------
(* Calls of getCollisionInfo and findClosestEmptyPosition                  *)

MaxCalls == 2

\* grids that are solid but for a few cells: the cells that may be free lie
\* in the shells of radius 1 and 2 around cell <<1, 1, 1>> and of radius 2
\* and 3 around cell <<0, 0, 0>>
FreeCandidates ==
    { <<1, 1, 1>>, <<0, 1, 1>>, <<1, 1, 2>>, <<2, 2, 1>>, <<0, 0, 0>>, <<2, 0, 2>>,
      <<1, 1, 3>>, <<3, 1, 1>>, <<3, 2, 1>>, <<3, 3, 3>>, <<2, 2, 2>>, <<3, 0, 0>> }

\* the grids of the calls: generated terrain, and grids filled by settled
\* bodies up to one or two cells
CallWorlds ==
    {GenerateWorld(var) : var \in TerrainChoices}
    \cup {Cells \ free : free \in SubsetsUpTo(FreeCandidates, 2)}

\* positions getCollisionInfo is called with: in the middle of cell
\* <<1, 1, 1>> and 0.25 off it along each axis, and resting on top of it
ProbePositions ==
    {<<SCALE + HALF + a, SCALE + HALF + b, SCALE + HALF + c>> :
        a \in {-5, 0, 5}, b \in {-5, 0, 5}, c \in {-5, 0, 5}}
    \cup {<<SCALE + HALF + a, 2 * SCALE + 7, SCALE + HALF + c>> : a \in {-9, 0, 9}, c \in {-9, 0, 9}}

\* the cells settleToGrid aims at: inside the grid, and outside it when the
\* body is above the grid or at its boundary
ProbeTargets == {<<1, 1, 1>>, <<0, 0, 0>>, <<2, 1, 1>>, <<1, WORLD_SIZE, 1>>, <<1, WORLD_SIZE + 4, 1>>}

\* a server whose grid is one of CallWorlds, nothing connected or in flight
InitCalls ==
    /\ world \in CallWorlds
    /\ heights = CountColumns(world)
    /\ terrainNeedsRebuild = FALSE
    /\ players = <<>>
    /\ clients = <<>>
    /\ movingVoxels = <<>>
    /\ nextPlayerId = 1
    /\ nextVoxelId = 1
    /\ budget = [ticks |-> 0, longTicks |-> 0, shots |-> 0, inputs |-> 0, sockets |-> 0, gridOps |-> 0]
    /\ log = EmptyLog
    /\ removedCells = {}

\* a call of getCollisionInfo(x, y, z, server), of src/server.js and of
\* src/game/MovingVoxel.js
CollisionInfoCall ==
    /\ budget.gridOps < MaxCalls
    /\ \E p \in ProbePositions :
          log' = [QuietLog("getCollisionInfo") EXCEPT
                    !.op = [p |-> p, ret |-> GetCollisionInfo(world, p),
                            corners |-> GetCollisionInfoCorners(world, p)]]
    /\ budget' = [budget EXCEPT !.gridOps = @ + 1]
    /\ UNCHANGED <<world, heights, terrainNeedsRebuild, players, clients, movingVoxels,
                   nextPlayerId, nextVoxelId, removedCells>>

\* a call of findClosestEmptyPosition(targetX, targetY, targetZ, server)
PlacementCall ==
    /\ budget.gridOps < MaxCalls
    /\ \E t \in ProbeTargets :
          log' = [QuietLog("findClosestEmptyPosition") EXCEPT
                    !.op = [target |-> t, ret |-> FindClosestEmptyPosition(world, t)]]
    /\ budget' = [budget EXCEPT !.gridOps = @ + 1]
    /\ UNCHANGED <<world, heights, terrainNeedsRebuild, players, clients, movingVoxels,
                   nextPlayerId, nextVoxelId, removedCells>>

NextCalls == CollisionInfoCall \/ PlacementCall

SpecCalls == InitCalls /\ [][NextCalls]_vars

\* the larger of the two face overlaps of the body at p with block b along
\* axis a: size + |p[a] - centre[a]|
AxisOverlap(p, b, a) == VOXEL_SIZE + Abs(p[a] - BlockCenter(b)[a])

\* the axes on whose faces the largest of the six overlaps is attained
LargestAxes(p, b) ==
    {a \in 1 .. 3 : \A a2 \in 1 .. 3 : AxisOverlap(p, b, a) >= AxisOverlap(p, b, a2)}

\* C23 as stated: getCollisionInfo returns the axis of the face with the
\* largest overlap, the first of them in the order X, Y, Z when several axes
\* attain it
C23_TiesTowardX ==
    log.kind = "getCollisionInfo" =>
        /\ log.op.ret.block # NoBlock =>
              /\ log.op.ret.axis \in LargestAxes(log.op.p, log.op.ret.block)
              /\ \A a \in LargestAxes(log.op.p, log.op.ret.block) : log.op.ret.axis <= a
        /\ log.op.corners.block # NoBlock =>
              /\ log.op.corners.axis \in LargestAxes(log.op.p, log.op.corners.block)
              /\ \A a \in LargestAxes(log.op.p, log.op.corners.block) : log.op.corners.axis <= a

\* C23, amended: getCollisionInfo of src/server.js returns an axis of the
\* largest of the six face overlaps, Y when it is attained on a Y face, else
\* Z when on a Z face, X only when on X faces alone; getCollisionInfo of
\* src/game/MovingVoxel.js returns Y or Z only when that axis alone attains
\* the largest overlap and X otherwise, also when Y and Z tie above X
C23_TiesTowardYThenZ ==
    log.kind = "getCollisionInfo" =>
        /\ log.op.ret.block # NoBlock =>
              LET top == LargestAxes(log.op.p, log.op.ret.block)
              IN  /\ log.op.ret.axis \in top
                  /\ log.op.ret.axis = IF 2 \in top THEN 2 ELSE IF 3 \in top THEN 3 ELSE 1
        /\ log.op.corners.block # NoBlock =>
              LET top == LargestAxes(log.op.p, log.op.corners.block)
              IN  log.op.corners.axis = IF top = {2} THEN 2 ELSE IF top = {3} THEN 3 ELSE 1

\* a call in which the overlaps along X and Y were the largest and equal,
\* and Y was returned
C23_Witness ==
    /\ log.kind = "getCollisionInfo"
    /\ log.op.ret.block # NoBlock
    /\ LargestAxes(log.op.p, log.op.ret.block) = {1, 2}
    /\ log.op.ret.axis = 2

\* a call of the src/game variant in which Y and Z tied above X and X was
\* returned
C23_WitnessCorners ==
    /\ log.kind = "getCollisionInfo"
    /\ log.op.corners.block # NoBlock
    /\ LargestAxes(log.op.p, log.op.corners.block) = {2, 3}
    /\ log.op.corners.axis = 1

-----------------------------------------------------------------------------
(* Settle placement                                                        *)

\* the Chebyshev radius of an offset: the cubic shell it lies in
ShellOf(o) == Max(Abs(o[1]), Max(Abs(o[2]), Abs(o[3])))

\* the offsets from cell t, within radius 4, of the free in-bounds cells of w
FreeOffsets(w, t) ==
    {o \in (-4..4) \X (-4..4) \X (-4..4) : IsFreeCell(w, t[1] + o[1], t[2] + o[2], t[3] + o[3])}

\* the free offsets of the smallest shell that holds one
SmallestShell(w, t) ==
    {o \in FreeOffsets(w, t) : \A o2 \in FreeOffsets(w, t) : ShellOf(o) <= ShellOf(o2)}

\* those of them nearest to t
NearestOfShell(w, t) ==
    {o \in SmallestShell(w, t) : \A o2 \in SmallestShell(w, t) : NormSq(o) <= NormSq(o2)}

\* C25: findClosestEmptyPosition returns the target T when it is in bounds
\* and empty; otherwise an in-bounds empty cell of the smallest cubic shell
\* of radius 1..4 around T that holds one, of minimal Euclidean distance to
\* T among the empty cells of that shell, and the first such in the order of
\* the dx, dy, dz loops; and null when no shell up to 4 holds one
C25_NearestInSmallestShell ==
    log.kind = "findClosestEmptyPosition" =>
        LET t == log.op.target
            o == VSub(log.op.ret, t)
        IN  IF IsFreeCell(world, t[1], t[2], t[3]) THEN log.op.ret = t
            ELSE IF FreeOffsets(world, t) = {} THEN log.op.ret = NoPosition
            ELSE /\ IsFreeCell(world, log.op.ret[1], log.op.ret[2], log.op.ret[3])
                 /\ ShellOf(o) \in 1 .. 4
                 /\ o \in NearestOfShell(world, t)
                 /\ \A o2 \in NearestOfShell(world, t) : LoopOrder(o) <= LoopOrder(o2)

\* a call that chose between two empty cells of the same shell at the same
\* distance from the occupied target
C25_Witness ==
    /\ log.kind = "findClosestEmptyPosition"
    /\ log.op.target \in world
    /\ Cardinality(NearestOfShell(world, log.op.target)) = 2
    /\ log.op.ret # NoPosition

\* a call that returned a cell of the shell of radius 2 although a cell of
\* the shell of radius 3 was nearer to the target
C25_WitnessFartherShell ==
    /\ log.kind = "findClosestEmptyPosition"
    /\ log.op.ret # NoPosition
    /\ ShellOf(VSub(log.op.ret, log.op.target)) = 2
    /\ \E o \in FreeOffsets(world, log.op.target) :
          NormSq(o) < NormSq(VSub(log.op.ret, log.op.target))

\* a call with a target outside the grid
C25_WitnessOutside ==
    /\ log.kind = "findClosestEmptyPosition"
    /\ ~InBounds(log.op.target[1], log.op.target[2], log.op.target[3])
    /\ log.op.ret # NoPosition

\* a call that found no empty cell
C25_WitnessNone ==
    /\ log.kind = "findClosestEmptyPosition"
    /\ log.op.ret = NoPosition

-----------------------------------------------------------------------------
(* The boundaries of the world                                             *)

\* the body v is within the walls and above the floor of the world
InsideWorld(v) ==
    /\ v.pos[1] >= VOXEL_SIZE /\ v.pos[1] <= WORLD_SIZE * SCALE - VOXEL_SIZE
    /\ v.pos[3] >= VOXEL_SIZE /\ v.pos[3] <= WORLD_SIZE * SCALE - VOXEL_SIZE
    /\ v.pos[2] >= VOXEL_SIZE

\* C26 as stated: at the end of every tick every body in the moving set has
\* X and Z within [size, N - size] and Y >= size
C26_InsideWorldAfterTick ==
    log.kind = "tick" => \A v \in Range(movingVoxels) : InsideWorld(v)

-----------------------------------------------------------------------------
(* The body of a player as a rigid body                                    *)

\* the displacement over the step of the cell of player pid that is cell a
\* before it and cell a2 after it
Displacement(a, a2) == VSub(a2.pos, a.pos)

\* C27 as stated: across any tick, all the cells that stay attached to a
\* player undergo the same displacement
C27_RigidBody ==
    [][log'.kind = "tick" =>
          \A pid \in DOMAIN players \cap DOMAIN players' :
              \A a \in Range(players[pid].bodyVoxels), b \in Range(players[pid].bodyVoxels) :
                  \A a2 \in Range(players'[pid].bodyVoxels), b2 \in Range(players'[pid].bodyVoxels) :
                      (a2.id = a.id /\ b2.id = b.id) => Displacement(a, a2) = Displacement(b, b2)]_vars

-----------------------------------------------------------------------------
(* The centre of a player catching up with its cells                       *)

MaxCatchUpTicks == 3
MaxCatchUpInputs == 1

\* a server with one connected player that has lost cells and presses no
\* movement key
InitCatchUp ==
    /\ InitPlayer
    /\ \A pid \in DOMAIN players : players[pid].keys = {}

\* a tick of the loop, at its rate or after a stall; the loop never stops,
\* its ticks are counted modulo MaxCatchUpTicks + 1
CatchUpTick ==
    /\ budget' = [budget EXCEPT !.ticks = (@ + 1) % (MaxCatchUpTicks + 1)]
    /\ \E dt \in {NominalDt, LongDt} : PhysicsStepLogged(dt, 0, players)

\* the space bar, at any time
CatchUpKeyDown ==
    /\ budget.inputs < MaxCatchUpInputs
    /\ \E ws \in Sockets : PlayerKeyDown(ws)

NextCatchUp ==
    \/ CatchUpTick
    \/ CatchUpKeyDown

SpecCatchUp == InitCatchUp /\ [][NextCatchUp]_vars

\* setInterval keeps calling the physics loop: the count of the ticks comes
\* back to 0 again and again
LoopKeepsTicking == []<>(budget.ticks = 0)

\* the vector from the centre of player p to the mean of its cells
Outstanding(p) == VSub(GetCenterPosition(p), p.centerPos)

\* the last step was a tick in which the centre of every player was put on
\* the mean of its cells at the recomputation step
CaughtUp ==
    /\ log.kind = "tick"
    /\ \A pid \in UpdatedPlayers :
          AtVerticalStep(pid).centerPos = GetCenterPosition(log.before[pid])

\* in a tick, the recomputation step shortens an outstanding distance above
\* 2.0 by 2.0 (to the rounding of the lattice), puts the centre on the mean
\* when it is at most 2.0, and the rest of the tick moves the centre and the
\* cells together
ShrinksByCap ==
    log.kind = "tick" =>
        \A pid \in UpdatedPlayers :
            LET b == log.before[pid]
                f == AtVerticalStep(pid)
            IN  /\ IF NormSq(Outstanding(b)) > (2 * SCALE) * (2 * SCALE)
                   THEN /\ Norm(Outstanding(f)) <= Norm(Outstanding(b)) - 2 * SCALE + 2
                        /\ Norm(Outstanding(f)) >= Norm(Outstanding(b)) - 2 * SCALE - 2
                   ELSE Outstanding(f) = <<0, 0, 0>>
                /\ pid \in DOMAIN players
                /\ Outstanding(players[pid]) = Outstanding(f)

\* C28: a player that has lost cells, loses no more and presses no movement
\* key has, after finitely many ticks and from then on, its centre on the
\* mean of its remaining cells at the recomputation step of every tick; until
\* then each tick shortens the outstanding distance by the capped shift 2.0
C28_CatchUp == []ShrinksByCap /\ (LoopKeepsTicking => <>[](log.kind = "tick" => CaughtUp))

\* the third tick of a player whose cells were more than 4.0 away from its
\* centre: the outstanding distance is within 2.0 and the centre is put on
\* the mean
C28_Witness ==
    /\ log.kind = "tick"
    /\ budget.ticks = 3
    /\ CaughtUp
    /\ \E pid \in UpdatedPlayers : Outstanding(log.before[pid]) # <<0, 0, 0>>

-----------------------------------------------------------------------------
(* The registry of the players                                             *)

MaxRegistryEvents == 4
MaxRegistryTicks == 2

InitRegistry ==
    /\ world = GenerateWorld([c \in Columns |-> 0])
    /\ heights = CountColumns(world)
    /\ terrainNeedsRebuild = TRUE
    /\ players = <<>>
    /\ clients = <<>>
    /\ movingVoxels = <<>>
    /\ nextPlayerId = 1
    /\ nextVoxelId = 1
    /\ budget = [ticks |-> 0, longTicks |-> 0, shots |-> 0, inputs |-> 0, sockets |-> 0, gridOps |-> 0]
    /\ log = EmptyLog
    /\ removedCells = {}

\* wss.on('connection'): a new socket, registered at once
RegistryConnect ==
    /\ budget.sockets < MaxSockets
    /\ \E r \in {AddPlayer(players, clients, budget.sockets + 1, nextPlayerId)} :
          /\ players' = r.players
          /\ clients' = r.clients
    /\ nextPlayerId' = nextPlayerId + 1
    /\ budget' = [budget EXCEPT !.sockets = @ + 1]
    /\ log' = [QuietLog("connect") EXCEPT !.op = [ws |-> budget.sockets + 1, registered |-> FALSE]]
    /\ UNCHANGED <<world, heights, terrainNeedsRebuild, movingVoxels, nextVoxelId, removedCells>>

\* ws.on('close') or ws.on('error') of a socket that has connected, whether
\* it is still registered or not: both handlers call removePlayer(ws)
CloseOrError(ws) ==
    /\ ws <= budget.sockets
    /\ budget.inputs < MaxRegistryEvents
    /\ \E r \in {RemovePlayer(players, clients, ws)} :
          /\ players' = r.players
          /\ clients' = r.clients
    /\ budget' = [budget EXCEPT !.inputs = @ + 1]
    /\ log' = [QuietLog("close") EXCEPT !.op = [ws |-> ws, registered |-> ws \in DOMAIN clients]]
    /\ UNCHANGED <<world, heights, terrainNeedsRebuild, movingVoxels, nextPlayerId,
                   nextVoxelId, removedCells>>

\* ws.on('message') of a socket that has connected: handleClientMessage
\* drops the message of an unregistered socket unless its type is
\* 'requestInitialState', which registers the socket again
RegistryMessage(ws, msg) ==
    /\ ws <= budget.sockets
    /\ budget.inputs < MaxRegistryEvents
    /\ IF ws \in DOMAIN clients
       THEN /\ \E r \in {HandleClientMessage(ws, msg)} : players' = r.players
            /\ UNCHANGED <<clients, nextPlayerId>>
       ELSE IF msg.type = "requestInitialState"
       THEN /\ \E r \in {AddPlayer(players, clients, ws, nextPlayerId)} :
                  /\ players' = r.players
                  /\ clients' = r.clients
            /\ nextPlayerId' = nextPlayerId + 1
       ELSE UNCHANGED <<players, clients, nextPlayerId>>
    /\ budget' = [budget EXCEPT !.inputs = @ + 1]
    /\ log' = [QuietLog("message") EXCEPT !.msg = msg.type,
                                          !.op = [ws |-> ws, registered |-> ws \in DOMAIN clients]]
    /\ UNCHANGED <<world, heights, terrainNeedsRebuild, movingVoxels, nextVoxelId, removedCells>>

\* a tick of the loop
RegistryTick ==
    /\ budget.ticks < MaxRegistryTicks
    /\ budget' = [budget EXCEPT !.ticks = @ + 1]
    /\ PhysicsStepUpTo(NominalDt, 0)

NextRegistry ==
    \/ RegistryConnect
    \/ \E ws \in Sockets : CloseOrError(ws)
    \/ \E ws \in Sockets : RegistryMessage(ws, [type |-> "requestInitialState"])
    \/ \E ws \in Sockets : RegistryMessage(ws, [type |-> "keydown"])
    \/ RegistryTick

SpecRegistry == InitRegistry /\ [][NextRegistry]_vars

\* every registered socket owns one player of the player map, and every
\* player of the player map belongs to exactly one socket
OneToOne ==
    /\ \A ws \in DOMAIN clients : clients[ws] \in DOMAIN players
    /\ \A pid \in DOMAIN players : Cardinality({ws \in DOMAIN clients : clients[ws] = pid}) = 1
    /\ \A pid \in DOMAIN players : players[pid].id = pid

\* the ids given to players in a step
AssignedIds == (DOMAIN players' \ DOMAIN players) \cup ({clients'[ws] : ws \in DOMAIN clients'} \ {clients[ws] : ws \in DOMAIN clients})

\* C29: after any interleaving of connection, message, close and error
\* events and ticks, the client map and the player map are in one-to-one
\* correspondence; an id given to a player is at least the counter before
\* the step and below the counter after it, and the counter never goes
\* down, so no id is given twice; a close or error event of a socket that is
\* not registered changes nothing of the server
C29_Registry ==
    /\ OneToOne
    /\ [][/\ OneToOne'
          /\ nextPlayerId' >= nextPlayerId
          /\ \A pid \in DOMAIN players : pid < nextPlayerId
          /\ \A pid \in AssignedIds : pid >= nextPlayerId /\ pid < nextPlayerId'
          /\ (log'.kind = "close" /\ ~log'.op.registered) =>
                UNCHANGED <<world, heights, terrainNeedsRebuild, players, clients, movingVoxels,
                            nextPlayerId, nextVoxelId, removedCells>>]_vars

\* the second of a close and an error event of a socket, while another
\* socket is registered, after a socket has registered again
C29_Witness ==
    /\ log.kind = "close"
    /\ ~log.op.registered
    /\ clients # <<>>
    /\ nextPlayerId > budget.sockets + 1

\* a socket registers again by a message after it was removed
C29_WitnessAgain ==
    /\ log.kind = "message"
    /\ log.msg = "requestInitialState"
    /\ ~log.op.registered
    /\ Cardinality(DOMAIN players) = 2

-----------------------------------------------------------------------------
(* The count of the voxels                                                 *)

\* the solid cells of the grid w and the bodies of the moving set mv
VoxelCount(w, mv) == Cardinality(w) + Len(mv)

\* the projectiles spawnProjectile puts into the moving set in a step
SpawnedIn(mv, mv2) == {id \in Ids(mv2) \ Ids(mv) : \E k \in 1 .. Len(mv2) : mv2[k].id = id /\ mv2[k].isProjectile}

\* the projectiles a step takes out of the moving set as killed by a cell
\* of a player
KilledIn(lg) == {r \in lg.results : r[2] = "kill_projectile"}

\* the cells of players a step puts into the moving set
EjectedIn(mv, mv2) == {mv2[k].id : k \in EjectedInFlight(mv2)} \ {mv[k].id : k \in EjectedInFlight(mv)}

\* C30: the number of solid cells plus the number of bodies of the moving
\* set goes up by one for each projectile spawned and each cell of a player
\* put into the moving set, goes down by one for each projectile killed by a
\* cell of a player, and changes in no other way: a destruction turns every
\* cell it removes into one body and a settling body becomes one new solid
\* cell
C30_VoxelConservation ==
    [][/\ VoxelCount(world', movingVoxels') - VoxelCount(world, movingVoxels)
            = Cardinality(SpawnedIn(movingVoxels, movingVoxels'))
              + Cardinality(EjectedIn(movingVoxels, movingVoxels'))
              - Cardinality(KilledIn(log'))
       /\ log'.kind = "tick" =>
             /\ SpawnedIn(movingVoxels, movingVoxels') = {}
             /\ \A r \in KilledIn(log') :
                   \E k \in 1 .. Len(movingVoxels) :
                       movingVoxels[k].id = r[1] /\ movingVoxels[k].isProjectile
             /\ \A r \in log'.settles :
                   /\ r.erased = {}
                   /\ Cardinality(r.written) = (IF <<r.id, "settled">> \in log'.results THEN 1 ELSE 0)
             /\ \A d \in log'.destroyed :
                   /\ d.after \subseteq d.before
                   /\ Cardinality(d.debris) = Cardinality(d.before \ d.after)
       /\ log'.kind # "tick" => KilledIn(log') = {} /\ world' = world]_vars

\* a tick in which a body left the moving set for a cell of the grid, the
\* count staying above that of the generated flat terrain
C30_Witness ==
    /\ log.kind = "tick"
    /\ \E r \in log.settles : r.written # {} /\ r.id \notin Ids(movingVoxels)
    /\ Cardinality(world) + Len(movingVoxels) > Cardinality(GenerateWorld([c \in Columns |-> 0]))

\* a tick in which a destruction turned a cell into a body
C30_WitnessDestruction ==
    /\ log.kind = "tick"
    /\ \E d \in log.destroyed : d.debris # {}

\* a tick in which a projectile was killed by a cell of a player
C30_WitnessKill ==
    /\ log.kind = "tick"
    /\ KilledIn(log) # {}

====
